---- MODULE Spec2Model ----
(***************************************************************************)
(* Faunus Monte Carlo move framework (move.h): the Movebase::move driver,  *)
(* the Metropolis test, the run-fraction test, the molecule list, the      *)
(* concrete moves, the PolarizeMove decorator and the Propagator.          *)
(*                                                                         *)
(* Real numbers are scaled integers: probabilities and uniform variates    *)
(* are in hundredths (a variate of (0,1) is one of 1, 50, 99), energies    *)
(* are small integers in units of kT, +infinity is the value Infty.        *)
(***************************************************************************)
EXTENDS Integers, Sequences, FiniteSets, TLC

\* ------------------------------------------------------------------------
\* Bounds of the model
\* ------------------------------------------------------------------------

\* Largest number of Propagator::move calls in one run
MaxCalls == 2

\* Propagator::move is not called again once this many trials were made
MaxTrials == 2

\* Largest number of particles the particle vectors may hold
MaxN == 7

\* ------------------------------------------------------------------------
\* Numbers
\* ------------------------------------------------------------------------

\* pc::infty
Infty == 999 + 1

\* Values the Hamiltonian's update(acceptance) may return
UpdateVals == {0, 3}

\* Uniform variates of (0,1) drawn for the Metropolis test, in hundredths
Uniform == {1, 50}

\* Uniform variates of (0,1) drawn for the run-fraction test, in hundredths
RunDraws == {1, 50, 99}

\* Acceptance probabilities "prob" of the input, in hundredths
Probs == {50, 100}

\* exp(-du), in hundredths, as std::exp computes it
ExpNeg(du) ==
    CASE du >= Infty -> 0
      [] du >= 2 -> 14
      [] du = 1 -> 36
      [] du = 0 -> 100
      [] du = -1 -> 271
      [] OTHER -> 739

RECURSIVE SeqSum(_)
SeqSum(s) == IF s = <<>> THEN 0 ELSE Head(s) + SeqSum(Tail(s))

Range(s) == {s[i] : i \in DOMAIN s}

\* The elements of the sequence s that are in the set J, in their order
\* The sequence 1, ..., n
Iota(n) == [i \in 1 .. n |-> i]

RECURSIVE Keep(_, _)
Keep(s, J) == IF s = <<>> THEN <<>>
              ELSE (IF Head(s) \in J THEN <<Head(s)>> ELSE <<>>) \o Keep(Tail(s), J)

\* ------------------------------------------------------------------------
\* Space: particles, groups, geometry, atom tracker
\* ------------------------------------------------------------------------

AtomIds == {"HA", "A", "Na", "Cl", "Ca", "M"}

\* Charge of each atom type (the atom table)
AtomCharge == [a \in AtomIds |->
    CASE a = "HA" -> 0 [] a = "A" -> -1 [] a = "Na" -> 1 [] a = "Ca" -> 2
      [] a = "M" -> 0 [] OTHER -> -1]

\* Radius of each atom type (the atom table), in half cells: two particles
\* overlap when they are in one cell
AtomRadius == [a \in AtomIds |-> 1]

\* Box lengths the geometry may take
Lens == {2, 3}

\* Cluster thresholds of the input, in half cells
Thresholds == {0, 1}

Particle(id, x) == [id |-> id, q |-> AtomCharge[id], x |-> x, mu |-> 0]

MolIds == {"mol", "salt"}

\* Two molecular groups of type "mol" (one titratable site each) and one
\* atomic group "salt", which is last in the particle vector
InitP == << Particle("HA", 0), Particle("A", 1),
            Particle("Na", 0), Particle("Cl", 1) >>

InitGroups == <<
    [molId |-> "mol", front |-> 1, back |-> 1, molecular |-> TRUE,
     cm |-> 0, cm_trial |-> 0],
    [molId |-> "mol", front |-> 2, back |-> 2, molecular |-> TRUE,
     cm |-> 1, cm_trial |-> 1],
    [molId |-> "salt", front |-> 3, back |-> 4, molecular |-> FALSE,
     cm |-> 1, cm_trial |-> 1] >>

\* The same particles with the two sites bonded in one molecule "mol"
PolymerGroups == <<
    [molId |-> "mol", front |-> 1, back |-> 2, molecular |-> TRUE,
     cm |-> 1, cm_trial |-> 1],
    [molId |-> "salt", front |-> 3, back |-> 4, molecular |-> FALSE,
     cm |-> 1, cm_trial |-> 1] >>

\* Space after construction: trial is a copy of p, tracker built from p
InitSpace == [p |-> InitP, trial |-> InitP, groups |-> InitGroups,
              atomTrack |-> [a \in AtomIds |->
                  CASE a = "HA" -> <<1>> [] a = "A" -> <<2>>
                    [] a = "Na" -> <<3>> [] a = "Cl" -> <<4>>
                    [] OTHER -> <<>>],
              geo |-> 2, geo_trial |-> 2,
              molList |-> <<"mol", "salt">>]

\* Space after construction, with the two-site molecule
PolymerSpace == [InitSpace EXCEPT !.groups = PolymerGroups]

\* A purely molecular system: two rigid two-particle molecules "mac" side
\* by side in a box of four cells
ClusterP == << Particle("M", 0), Particle("M", 1),
               Particle("M", 2), Particle("M", 3) >>

ClusterGroups == <<
    [molId |-> "mac", front |-> 1, back |-> 2, molecular |-> TRUE,
     cm |-> 1, cm_trial |-> 1],
    [molId |-> "mac", front |-> 3, back |-> 4, molecular |-> TRUE,
     cm |-> 5, cm_trial |-> 5] >>

ClusterSpace ==
    [p |-> ClusterP, trial |-> ClusterP, groups |-> ClusterGroups,
     atomTrack |-> [a \in AtomIds |->
         IF a = "M" THEN <<1, 2, 3, 4>> ELSE <<>>],
     geo |-> 4, geo_trial |-> 4,
     molList |-> <<"mac", "mic">>]

\* One linear chain of four monomers in the same box
ChainSpace ==
    [ClusterSpace EXCEPT
        !.groups = << [molId |-> "chain", front |-> 1, back |-> 4,
                       molecular |-> TRUE, cm |-> 6, cm_trial |-> 6] >>,
        !.molList = <<"chain">>]

\* The same box with a molecule "mac" and a molecule "mic"
MixedSpace == [ClusterSpace EXCEPT !.groups[2].molId = "mic"]

\* A salt of a divalent cation in place of the monovalent one
DivalentP == << Particle("HA", 0), Particle("A", 1),
                Particle("Ca", 0), Particle("Cl", 1) >>

\* Space after construction, with the divalent salt
DivalentSpace ==
    [InitSpace EXCEPT !.p = DivalentP, !.trial = DivalentP,
                      !.atomTrack = [a \in AtomIds |->
                          CASE a = "HA" -> <<1>> [] a = "A" -> <<2>>
                            [] a = "Ca" -> <<3>> [] a = "Cl" -> <<4>>
                            [] OTHER -> <<>>]]

\* Group::size()
GroupSize(g) == g.back - g.front + 1

\* Particle indices of a group
GroupIdx(g) == g.front .. g.back

\* Space::findMolecules(molId): the groups of that molecule type
findMolecules(S, id) == {g \in DOMAIN S.groups : S.groups[g].molId = id}

\* Space::numMolecules(molId)
numMolecules(S, id) == Cardinality(findMolecules(S, id))

\* findMolecules(molId).front()
FrontGroup(S, id) == CHOOSE g \in findMolecules(S, id) :
                        \A h \in findMolecules(S, id) : g <= h

\* Space::findGroup(i): the group holding particle i
findGroup(S, i) == CHOOSE g \in DOMAIN S.groups : i \in GroupIdx(S.groups[g])

RECURSIVE SumX(_, _)
SumX(vec, I) == IF I = {} THEN 0
                ELSE LET i == CHOOSE j \in I : TRUE
                     IN vec[i].x + SumX(vec, I \ {i})

\* Geometry::massCenter(geo, vec, group), as the sum of the coordinates
massCenter(vec, g) == SumX(vec, GroupIdx(g) \cap DOMAIN vec)

\* Group::setMassCenter: cm = cm_trial = massCenter(p)
setMassCenter(S, g) ==
    [S EXCEPT !.groups[g].cm = massCenter(S.p, S.groups[g]),
              !.groups[g].cm_trial = massCenter(S.p, S.groups[g])]

\* Group::setMassCenter for every group (cm = cm_trial = massCenter(p))
setMassCenterAll(S) ==
    [S EXCEPT !.groups = [g \in DOMAIN S.groups |->
        [S.groups[g] EXCEPT !.cm = massCenter(S.p, S.groups[g]),
                            !.cm_trial = massCenter(S.p, S.groups[g])]]]

\* Point::translate(geo, t): cells 0..len-1 are inside the container, cell
\* len is outside of it
translate(x, d, len) == (x + d) % (len + 1)

\* Displacements a translation may draw
Disp == {0, 1, 2}

\* Group::translate: every trial particle of the group, and its trial
\* mass centre
Group_translate(S, g, d) ==
    LET T == [S EXCEPT !.trial = [i \in DOMAIN S.trial |->
                 IF i \in GroupIdx(S.groups[g])
                 THEN [S.trial[i] EXCEPT !.x = translate(@, d, S.geo)]
                 ELSE S.trial[i]]]
    IN [T EXCEPT !.groups[g].cm_trial = massCenter(T.trial, T.groups[g])]

\* Group::scale: trial coordinates of the group scaled to the new box length
Group_scale(S, g, newlen) ==
    LET T == [S EXCEPT !.trial = [i \in DOMAIN S.trial |->
                 IF i \in GroupIdx(S.groups[g])
                 THEN [S.trial[i] EXCEPT !.x = (@ * newlen) \div S.geo]
                 ELSE S.trial[i]]]
    IN [T EXCEPT !.groups[g].cm_trial = massCenter(T.trial, T.groups[g])]

\* Group::accept: trial -> p for the particles of the group, cm_trial -> cm
Group_accept(S, g) ==
    [S EXCEPT !.p = [i \in DOMAIN S.p |->
                 IF i \in GroupIdx(S.groups[g]) THEN S.trial[i] ELSE S.p[i]],
              !.groups[g].cm = S.groups[g].cm_trial]

\* Group::undo: p -> trial for the particles of the group, cm -> cm_trial
Group_undo(S, g) ==
    [S EXCEPT !.trial = [i \in DOMAIN S.trial |->
                 IF i \in GroupIdx(S.groups[g]) THEN S.p[i] ELSE S.trial[i]],
              !.groups[g].cm_trial = S.groups[g].cm]

\* A step applied to every group of the group list in turn
RECURSIVE ForAllGroups(_, _, _)
ForAllGroups(Op(_, _), S, g) ==
    IF g > Len(S.groups) THEN S ELSE ForAllGroups(Op, Op(S, g), g + 1)

\* Position of v in the sequence s (0 when absent)
IndexOf(s, v) == IF \E k \in DOMAIN s : s[k] = v
                 THEN CHOOSE k \in DOMAIN s : s[k] = v ELSE 0

\* The sequence s without its k-th element
RemoveAt(s, k) == [j \in 1 .. (Len(s) - 1) |-> IF j < k THEN s[j] ELSE s[j + 1]]

\* Tracker::insert(id, index)
Tracker_insert(track, id, i) == [track EXCEPT ![id] = Append(@, i)]

\* Tracker::erase(index): the index leaves the list that holds it
Tracker_erase(track, i) ==
    [a \in DOMAIN track |->
        IF IndexOf(track[a], i) # 0 THEN RemoveAt(track[a], IndexOf(track[a], i))
        ELSE track[a]]

\* Space::insert(molId, pvec): the particles join the end of the (last,
\* atomic) group of that molecule type in p and in trial, and the tracker
RECURSIVE Space_insert(_, _, _)
Space_insert(S, g, pvec) ==
    IF pvec = <<>> THEN S
    ELSE Space_insert(
            [S EXCEPT !.p = Append(@, Head(pvec)),
                      !.trial = Append(@, Head(pvec)),
                      !.groups[g].back = @ + 1,
                      !.atomTrack = Tracker_insert(@, Head(pvec).id, Len(S.p) + 1)],
            g, Tail(pvec))

\* Space::erase(i): the particle leaves p and trial, the groups and the
\* tracker shift the indices above it
Space_erase(S, i) ==
    [S EXCEPT !.p = RemoveAt(@, i),
              !.trial = RemoveAt(@, i),
              !.groups = [g \in DOMAIN S.groups |->
                  [S.groups[g] EXCEPT
                      !.front = IF @ > i THEN @ - 1 ELSE @,
                      !.back = IF @ >= i THEN @ - 1 ELSE @]],
              !.atomTrack = [a \in DOMAIN S.atomTrack |->
                  LET t == Tracker_erase(S.atomTrack, i)[a]
                  IN [k \in DOMAIN t |-> IF t[k] > i THEN t[k] - 1 ELSE t[k]]]]

\* Geometry::collision: the particle is outside the container
collision(a, len) == a.x >= len

\* Geometry::dist, in cells
dist(a, b) == IF a.x >= b.x THEN a.x - b.x ELSE b.x - a.x

\* Geometry::sqdist, in squared half cells
sqdist(a, b) == 4 * dist(a, b) * dist(a, b)

\* A rotation about the point c2/2 by a half turn
rotate(x, c2, len) == (c2 - x) % (len + 1)

\* ------------------------------------------------------------------------
\* Hamiltonian (Energybase): an external field in cell 1 that is stronger
\* for cations, and an intrinsic energy of 1 for the deprotonated site
\* ------------------------------------------------------------------------

\* Energybase::i_internal
intrinsic(a) == IF a.id = "A" THEN 1 ELSE 0

\* Energybase::p_external
field(a) == IF a.x = 1 THEN (IF a.q > 0 THEN 2 ELSE 1) - a.mu ELSE 0

external(a) == field(a) + intrinsic(a)

\* Energybase::i2i: two macromolecular sites in one cell repel
i2i(a, b) == IF a.id = "M" /\ b.id = "M" /\ a.x = b.x THEN 1 ELSE 0

RECURSIVE SumOver(_, _)
SumOver(f, I) == IF I = {} THEN 0
                 ELSE LET i == CHOOSE j \in I : TRUE
                      IN f[i] + SumOver(f, I \ {i})

\* Energybase::g2g: the pair energy between two groups
g2g(vec, g1, g2) ==
    LET K == (GroupIdx(g1) \X GroupIdx(g2)) \cap ((DOMAIN vec) \X (DOMAIN vec))
    IN SumOver([k \in K |-> i2i(vec[k[1]], vec[k[2]])], K)

\* Energybase::g_external
g_external(vec, g) ==
    LET K == GroupIdx(g) \cap DOMAIN vec
    IN SumOver([k \in K |-> external(vec[k])], K)

\* The pair energy of all particles
pairEnergy(vec) ==
    LET K == {k \in (DOMAIN vec) \X (DOMAIN vec) : k[1] < k[2]}
    IN SumOver([k \in K |-> i2i(vec[k[1]], vec[k[2]])], K)

RECURSIVE externalEnergy(_)
externalEnergy(vec) ==
    IF vec = <<>> THEN 0 ELSE external(Head(vec)) + externalEnergy(Tail(vec))

\* Energy::systemEnergy: external and pair energy of a particle vector
systemEnergy(vec) == externalEnergy(vec) + pairEnergy(vec)

\* Energy::energyChange(spc, pot, change): infinite when a trial particle
\* collides with the container, else the energy difference trial - p
\* and the pressure term for a volume change
potEnergyChange(S, ch) ==
    IF \E i \in DOMAIN S.trial : /\ collision(S.trial[i], S.geo_trial)
                                 /\ S.trial[i] # S.p[i]
    THEN Infty
    ELSE systemEnergy(S.trial) - systemEnergy(S.p) + ch.dV

\* Energy::systemEnergy(spc, pot, trial) - Energy::systemEnergy(spc, pot, p)
systemEnergyChange(S) ==
    IF \E i \in DOMAIN S.trial : /\ collision(S.trial[i], S.geo_trial)
                                 /\ S.trial[i] # S.p[i]
    THEN Infty
    ELSE systemEnergy(S.trial) - systemEnergy(S.p)

\* Natural logarithm, rounded, of the small numbers of the ideal-gas terms
lnq(k) == IF k <= 1 THEN 0 ELSE 1

\* ------------------------------------------------------------------------
\* Change descriptor
\* ------------------------------------------------------------------------

\* Change after clear(): no moved groups, no geometry change
EmptyChange == [mvGroup |-> {}, geometryChange |-> FALSE, dV |-> 0]

\* ------------------------------------------------------------------------
\* Movebase
\* ------------------------------------------------------------------------

\* MolListData with its default values
MolListData(prob, perAtom, perMol) ==
    [prob |-> prob, perAtom |-> perAtom, perMol |-> perMol, repeat |-> 1]

NoMolList == [id \in {} |-> MolListData(100, FALSE, FALSE)]

\* Movebase constructor, followed by the derived constructor's settings
Movebase(kind, mollist, prob, useAlt) ==
    [kind |-> kind, mollist |-> mollist,
     cnt |-> 0, cnt_accepted |-> 0, dusum |-> 0,
     runfraction |-> prob, currentMolId |-> "none",
     useAlternativeReturnEnergy |-> useAlt, alternateReturnEnergy |-> 0,
     Ntrials |-> 0, updateDip |-> FALSE,
     iparticle |-> 0, igroup |-> 0, dp |-> 1,
     oldlen |-> 0, newlen |-> 0,
     map |-> {}, ida |-> "none", idb |-> "none",
     trial_insert |-> <<>>, trial_delete |-> <<>>,
     gcyes |-> FALSE, isite |-> 0, pid |-> "none", protonation |-> FALSE,
     ipart |-> 0, ip |-> 0, jp |-> 0, sites |-> <<>>, threw |-> FALSE,
     rank |-> 0, nproc |-> 2, partner |-> -1,
     sendVolume |-> 0, recvVolume |-> 0,
     polarize |-> FALSE,
     threshold |-> 0, dp_rot |-> 0, gmobile |-> 0, cindex |-> <<>>,
     staticmol |-> {},
     gPtr |-> 0, minlen |-> 1, maxlen |-> 10, beg |-> 0, end |-> 0,
     index |-> <<>>,
     moved |-> <<>>, remaining |-> <<>>, skipEnergyUpdate |-> FALSE]

\* A repeat number that forgets the perMol factor
RepeatOf_perAtomOnly(S, d, id) ==
    IF d.perAtom THEN GroupSize(S.groups[FrontGroup(S, id)]) ELSE 1

\* Movebase::randomMolId: the repeat number of the selected entry
RepeatOf(S, d, id) ==
    (IF d.perMol THEN numMolecules(S, id) ELSE 1)
  * (IF d.perAtom THEN GroupSize(S.groups[FrontGroup(S, id)]) ELSE 1)

\* Movebase::randomMolId with the entry id drawn by the move generator
randomMolId(m, S, id) ==
    [m EXCEPT !.mollist[id].repeat = RepeatOf(S, m.mollist[id], id)]

\* A run-fraction test that always passes
run_always(r, runfraction) == TRUE

\* Movebase::run: the run-fraction test on a variate of the move generator
run(r, runfraction) == r < runfraction

\* A Metropolis test that accepts up to one hundredth above exp(-du)
metropolis_tolerant(u, e) == [ok |-> ~(u > ExpNeg(e) + 1), draws |-> 1]

\* A Metropolis test that draws a variate only for an uphill move
metropolis_lazy(u, e) ==
    [ok |-> ~(e > 0 /\ u > ExpNeg(e)), draws |-> IF e > 0 THEN 1 ELSE 0]

\* Movebase::metropolis: ok is its return value when the global generator
\* yields u, draws is the number of variates it takes from the generator
metropolis(u, e) == [ok |-> ~(u > ExpNeg(e)), draws |-> 1]

\* ------------------------------------------------------------------------
\* AtomicTranslation
\* ------------------------------------------------------------------------

\* change.mvGroup[g].push_back(i)
mvPush(ch, g, i) ==
    [ch EXCEPT !.mvGroup =
        IF \E e \in ch.mvGroup : e[1] = g
        THEN {IF e[1] = g THEN <<g, Append(e[2], i)>> ELSE e : e \in ch.mvGroup}
        ELSE ch.mvGroup \cup {<<g, <<i>> >>}]

\* AtomicTranslation::run, then Movebase::run on the variate r
AtomicTranslation_run(m, S, r) ==
    IF findMolecules(S, m.currentMolId) = {} THEN FALSE
    ELSE IF m.igroup # 0 /\ GroupSize(S.groups[m.igroup]) = 0 THEN FALSE
    ELSE run(r, m.runfraction)

AtomicTranslation_trialMove(m, S, ch) ==
    UNION { { LET gi == findGroup(S, i)
                  T  == [S EXCEPT !.trial[i].x =
                                      translate(S.trial[i].x, d, S.geo)]
              IN [m |-> [m EXCEPT !.igroup = g, !.iparticle = i],
                  S |-> IF T.groups[gi].molecular
                        THEN [T EXCEPT !.groups[gi].cm_trial =
                                           massCenter(T.trial, T.groups[gi])]
                        ELSE T,
                  change |-> mvPush(ch, g, i)]
              : i \in GroupIdx(S.groups[g]), d \in Disp }
          : g \in findMolecules(S, m.currentMolId) }

AtomicTranslation_energyChange(m, S, ch) ==
    { [du |-> potEnergyChange(S, ch), m |-> m, S |-> S] }

AtomicTranslation_acceptMove(m, S) ==
    LET i  == m.iparticle
        gi == findGroup(S, i)
        T  == [S EXCEPT !.p[i] = S.trial[i]]
    IN [m |-> m,
        S |-> IF T.groups[gi].molecular
              THEN [T EXCEPT !.groups[gi].cm = T.groups[gi].cm_trial]
              ELSE T]

AtomicTranslation_rejectMove(m, S) ==
    LET i  == m.iparticle
        gi == findGroup(S, i)
        T  == [S EXCEPT !.trial[i] = S.p[i]]
    IN [m |-> m,
        S |-> IF T.groups[gi].molecular
              THEN [T EXCEPT !.groups[gi].cm_trial = T.groups[gi].cm]
              ELSE T]

\* ------------------------------------------------------------------------
\* TranslateRotate (single-particle molecules: the rotation moves nothing)
\* ------------------------------------------------------------------------

TranslateRotate_trialMove(m, S, ch) ==
    UNION { { [m |-> [m EXCEPT !.igroup = g],
               S |-> IF m.dp > 0 THEN Group_translate(S, g, d) ELSE S,
               change |-> [ch EXCEPT !.mvGroup =
                              {e \in @ : e[1] # g} \cup {<<g, <<>> >>}]]
              : d \in Disp }
          : g \in findMolecules(S, m.currentMolId) }

TranslateRotate_energyChange(m, S, ch) ==
    { [du |-> IF m.dp = 0 THEN 0 ELSE potEnergyChange(S, ch),
       m |-> m, S |-> S] }

TranslateRotate_acceptMove(m, S) == [m |-> m, S |-> Group_accept(S, m.igroup)]

TranslateRotate_rejectMove(m, S) == [m |-> m, S |-> Group_undo(S, m.igroup)]

\* ------------------------------------------------------------------------
\* Isobaric
\* ------------------------------------------------------------------------

\* A scaling that commits the scaled coordinates at once
Isobaric_scaleGroup_commit(newlen, S, g) ==
    Group_accept(Group_scale(setMassCenter(S, g), g, newlen), g)

\* setMassCenter and scale of one group
Isobaric_scaleGroup(newlen, S, g) == Group_scale(setMassCenter(S, g), g, newlen)

\* The groups registered in the change object: all particles of an atomic
\* group, an empty list for a molecular group
Isobaric_register(S) ==
    { <<g, IF S.groups[g].molecular THEN <<>>
           ELSE [k \in 1 .. GroupSize(S.groups[g]) |->
                    S.groups[g].front + k - 1]>> : g \in DOMAIN S.groups }

Isobaric_trialMove(m, S, ch) ==
    { LET scaleTo(T, g) == Isobaric_scaleGroup(newlen, T, g)
          T1 == ForAllGroups(scaleTo, S, 1)
      IN [m |-> [m EXCEPT !.oldlen = S.geo, !.newlen = newlen],
          S |-> [T1 EXCEPT !.geo_trial = newlen],
          change |-> [mvGroup |-> Isobaric_register(S),
                      geometryChange |-> TRUE,
                      dV |-> newlen - S.geo]]
      : newlen \in Lens }

\* Isochoric::_trialMove: the new side length is drawn and the trial
\* coordinates of every group are scaled; the mass centres are not
\* recomputed first, geo_trial and the change object are left as they are.
\* Isochoric inherits _energyChange, _acceptMove and _rejectMove
Isochoric_trialMove(m, S, ch) ==
    { LET scaleTo(T, g) == Group_scale(T, g, newlen)
      IN [m |-> [m EXCEPT !.oldlen = S.geo, !.newlen = newlen],
          S |-> ForAllGroups(scaleTo, S, 1),
          change |-> ch]
      : newlen \in Lens }

Isobaric_energyChange(m, S, ch) ==
    { [du |-> potEnergyChange(S, ch), m |-> m, S |-> S] }

Isobaric_acceptMove(m, S) ==
    [m |-> m, S |-> ForAllGroups(Group_accept, [S EXCEPT !.geo = m.newlen], 1)]

Isobaric_rejectMove(m, S) ==
    [m |-> m,
     S |-> ForAllGroups(Group_undo,
               [S EXCEPT !.geo = m.oldlen, !.geo_trial = m.oldlen], 1)]

\* ------------------------------------------------------------------------
\* GrandCanonicalSalt
\* ------------------------------------------------------------------------

\* The group of the salt
saltGroup(S) == FrontGroup(S, "salt")

\* Positions inside the box, for Geometry::randompos
InBox(S) == 0 .. (S.geo - 1)

\* One ion of each type, whatever the valency
IonCount_one(id) == 1

\* Number of ions of one type a trial inserts or deletes: |charge| of the
\* other type
IonCount(id) == IF AtomCharge[id] < 0 THEN -AtomCharge[id] ELSE AtomCharge[id]

\* Sequences of k particles of type id at positions of the box
RECURSIVE IonsAt(_, _, _)
IonsAt(id, k, P) ==
    IF k = 0 THEN {<<>>}
    ELSE {<<Particle(id, x)>> \o r : x \in P, r \in IonsAt(id, k - 1, P)}

\* Sequences of k distinct elements drawn from the tracker list v
RECURSIVE Draws(_, _)
Draws(v, k) ==
    IF k = 0 THEN {<<>>}
    ELSE UNION { {<<v[j]>> \o r : r \in Draws(RemoveAt(v, j), k - 1)}
                 : j \in DOMAIN v }

\* GrandCanonicalSalt::add: the ion types of the salt group
IonTypes(S) ==
    {S.p[i].id : i \in GroupIdx(S.groups[saltGroup(S)])}

\* GrandCanonicalSalt::randomIonPair: a cation type and an anion type
randomIonPair(m) ==
    {<<a, b>> \in m.map \X m.map : AtomCharge[a] > 0 /\ AtomCharge[b] < 0}

\* The trial for the ion pair (ida, idb)
GrandCanonicalSalt_pairTrial(m, S, ch, ida, idb) ==
    LET Na  == IonCount(idb)
        Nb  == IonCount(ida)
        m0  == [m EXCEPT !.trial_insert = <<>>, !.trial_delete = <<>>,
                         !.ida = ida, !.idb = idb]
        ins == IF Len(S.p) + Na + Nb > MaxN THEN {}
               ELSE { [m |-> [m0 EXCEPT !.trial_insert = a \o b],
                       S |-> S, change |-> ch]
                      : a \in IonsAt(ida, Na, InBox(S)),
                        b \in IonsAt(idb, Nb, InBox(S)) }
        del == IF Len(S.atomTrack[ida]) < Na \/ Len(S.atomTrack[idb]) < Nb
               THEN { [m |-> m0, S |-> S, change |-> ch] }
               ELSE { [m |-> [m0 EXCEPT !.trial_delete = a \o b],
                       S |-> S, change |-> ch]
                      : a \in Draws(S.atomTrack[ida], Na),
                        b \in Draws(S.atomTrack[idb], Nb) }
    IN ins \cup del

GrandCanonicalSalt_trialMove(m, S, ch) ==
    UNION { GrandCanonicalSalt_pairTrial(m, S, ch, pr[1], pr[2])
            : pr \in randomIonPair(m) }

RECURSIVE SumExternal(_)
SumExternal(pvec) ==
    IF pvec = <<>> THEN 0 ELSE external(Head(pvec)) + SumExternal(Tail(pvec))

\* log of the ideal-gas factor: prod (N + 1 + n) / V for n = 0 .. k-1
RECURSIVE LogIdFactor(_, _, _)
LogIdFactor(N, k, V) ==
    IF k <= 0 THEN 0
    ELSE lnq(N + k) - lnq(V) + LogIdFactor(N, k - 1, V)

\* Number of elements of the sequence that satisfy the test
RECURSIVE CountIf(_, _)
CountIf(Test(_), s) ==
    IF s = <<>> THEN 0
    ELSE (IF Test(Head(s)) THEN 1 ELSE 0) + CountIf(Test, Tail(s))

\* An evaluation that finds every salt trial infinitely unfavourable
GrandCanonicalSalt_energyChange_infty(m, S, ch) ==
    { [du |-> Infty, m |-> m, S |-> S] }

GrandCanonicalSalt_energyChange(m, S, ch) ==
    LET V == S.geo
        isA(t) == t.id = m.ida
        isAi(i) == S.p[i].id = m.ida
        isBi(i) == S.p[i].id = m.idb
        NAi == CountIf(isA, m.trial_insert)
        NBi == Len(m.trial_insert) - NAi
        NAd == CountIf(isAi, m.trial_delete)
        NBd == CountIf(isBi, m.trial_delete)
        potnew == IF m.trial_insert # <<>> THEN SumExternal(m.trial_insert) ELSE 0
        potold == IF m.trial_insert = <<>> /\ m.trial_delete # <<>>
                  THEN SumExternal([k \in DOMAIN m.trial_delete |->
                                       S.p[m.trial_delete[k]]])
                  ELSE 0
        unew == IF m.trial_insert # <<>>
                THEN LogIdFactor(Len(S.atomTrack[m.ida]), NAi, V)
                   + LogIdFactor(Len(S.atomTrack[m.idb]), NBi, V) + potnew
                ELSE IF m.trial_delete # <<>>
                THEN 0 - LogIdFactor(Len(S.atomTrack[m.ida]) - NAd, NAd, V)
                       - LogIdFactor(Len(S.atomTrack[m.idb]) - NBd, NBd, V)
                ELSE 0
    IN { [du |-> unew - potold,
          m |-> [m EXCEPT !.alternateReturnEnergy = potnew - potold],
          S |-> S] }

\* The indices in decreasing order (std::sort on reverse iterators)
RECURSIVE ReverseSort(_)
ReverseSort(s) ==
    IF s = <<>> THEN <<>>
    ELSE LET k == CHOOSE j \in DOMAIN s : \A l \in DOMAIN s : s[j] >= s[l]
         IN <<s[k]>> \o ReverseSort(RemoveAt(s, k))

\* spc->erase(i) for each index of the list, in its order
RECURSIVE EraseAll(_, _)
EraseAll(S, s) ==
    IF s = <<>> THEN S ELSE EraseAll(Space_erase(S, Head(s)), Tail(s))

GrandCanonicalSalt_acceptMove(m, S) ==
    LET S1 == IF m.trial_insert # <<>>
              THEN Space_insert(S, saltGroup(S), m.trial_insert) ELSE S
        md == IF m.trial_delete # <<>>
              THEN [m EXCEPT !.trial_delete = ReverseSort(@)] ELSE m
    IN [m |-> md, S |-> EraseAll(S1, md.trial_delete)]

GrandCanonicalSalt_rejectMove(m, S) == [m |-> m, S |-> S]

\* ------------------------------------------------------------------------
\* Titration: the equilibrium controller with the process HA <-> A
\* ------------------------------------------------------------------------

\* EquilibriumController::findSites: the particles a process applies to
findSites(vec) ==
    LET I == {i \in DOMAIN vec : vec[i].id \in {"HA", "A"}}
        Sorted[k \in 0 .. Cardinality(I)] ==
            IF k = 0 THEN <<>>
            ELSE Append(Sorted[k - 1],
                        CHOOSE i \in I : Cardinality({j \in I : j < i}) = k - 1)
    IN Sorted[Cardinality(I)]



\* processdata::swap: the particle takes the other state of the process,
\* with the charge of the atom table, and keeps its position
swap(a) == LET id == IF a.id = "HA" THEN "A" ELSE "HA"
           IN [a EXCEPT !.id = id, !.q = AtomCharge[id]]

\* processdata::bound: the id is the protonated state
bound(id) == id = "HA"

\* ------------------------------------------------------------------------
\* GrandCanonicalTitration
\* ------------------------------------------------------------------------

\* The swap-and-ion trial (case 1 of the switcher)
GrandCanonicalTitration_titrate(m, S, ch) ==
    UNION { UNION {
        LET T  == [S EXCEPT !.trial[isite] = swap(@)]
            protonation == bound(T.trial[isite].id)
            N  == IF AtomCharge[pid] > 0 THEN 0 ELSE 1
            m0 == [m EXCEPT !.gcyes = FALSE, !.trial_insert = <<>>,
                            !.trial_delete = <<>>, !.pid = pid,
                            !.isite = isite, !.protonation = protonation]
        IN IF (protonation /\ N = 0) \/ (~protonation /\ N = 1)
           THEN IF S.atomTrack[pid] = <<>>
                THEN { [m |-> [m0 EXCEPT !.threw = TRUE], S |-> T,
                        change |-> ch] }
                ELSE { [m |-> [m0 EXCEPT !.trial_delete = <<iIon>>], S |-> T,
                        change |-> ch] : iIon \in Range(S.atomTrack[pid]) }
           ELSE IF Len(S.p) + 1 > MaxN THEN {}
                ELSE { [m |-> [m0 EXCEPT !.trial_insert = <<Particle(pid, x)>>],
                        S |-> T, change |-> ch] : x \in InBox(S) }
        : isite \in Range(m.sites) }
      : pid \in {id \in m.map : AtomCharge[id] * AtomCharge[id] = 1} }

GrandCanonicalTitration_trialMove(m, S, ch) ==
    IF m.sites = <<>>
    THEN GrandCanonicalSalt_trialMove([m EXCEPT !.gcyes = TRUE], S, ch)
    ELSE GrandCanonicalSalt_trialMove([m EXCEPT !.gcyes = TRUE], S, ch)
         \cup GrandCanonicalTitration_titrate(m, S, ch)

GrandCanonicalTitration_energyChange(m, S, ch) ==
    IF m.gcyes THEN GrandCanonicalSalt_energyChange(m, S, ch)
    ELSE LET V == S.geo
             Npid == Len(S.atomTrack[m.pid])
             potnew == intrinsic(S.trial[m.isite])
             potold == intrinsic(S.p[m.isite])
             unew == IF m.trial_insert # <<>>
                     THEN lnq(Npid + 1) - lnq(V)
                     ELSE lnq(V) - lnq(Npid)
         IN { [du |-> unew + potnew - potold,
               m |-> [m EXCEPT !.alternateReturnEnergy = potnew - potold],
               S |-> S] }

\* An acceptance that commits the ion and leaves the site as it was
GrandCanonicalTitration_acceptMove_ionOnly(m, S) ==
    IF m.gcyes THEN GrandCanonicalSalt_acceptMove(m, S)
    ELSE IF m.trial_insert # <<>>
         THEN [m |-> m, S |-> Space_insert(S, saltGroup(S), m.trial_insert)]
         ELSE [m |-> m, S |-> EraseAll(S, ReverseSort(m.trial_delete))]

GrandCanonicalTitration_acceptMove(m, S) ==
    IF m.gcyes THEN GrandCanonicalSalt_acceptMove(m, S)
    ELSE LET S1 == [S EXCEPT !.p[m.isite] = S.trial[m.isite]]
         IN IF m.trial_insert # <<>>
            THEN [m |-> m, S |-> Space_insert(S1, saltGroup(S1), m.trial_insert)]
            ELSE [m |-> [m EXCEPT !.trial_delete = ReverseSort(@)],
                  S |-> EraseAll(S1, ReverseSort(m.trial_delete))]

GrandCanonicalTitration_rejectMove(m, S) ==
    IF m.gcyes THEN GrandCanonicalSalt_rejectMove(m, S)
    ELSE [m |-> m, S |-> [S EXCEPT !.trial[m.isite] = S.p[m.isite]]]

\* ------------------------------------------------------------------------
\* SwapMove
\* ------------------------------------------------------------------------

SwapMove_trialMove(m, S, ch) ==
    IF m.sites = <<>> THEN { [m |-> m, S |-> S, change |-> ch] }
    ELSE { [m |-> [m EXCEPT !.ipart = i],
            S |-> [S EXCEPT !.trial[i] = swap(@)],
            change |-> ch] : i \in Range(m.sites) }

SwapMove_energyChange(m, S, ch) ==
    { [du |-> IF collision(S.trial[m.ipart], S.geo) THEN Infty
              ELSE external(S.trial[m.ipart]) - external(S.p[m.ipart]),
       m |-> m, S |-> S] }

SwapMove_acceptMove(m, S) ==
    LET S1 == [S EXCEPT !.p[m.ipart] = S.trial[m.ipart]]
    IN [m |-> m,
        S |-> [S1 EXCEPT !.atomTrack =
                  Tracker_insert(Tracker_erase(@, m.ipart),
                                 S1.p[m.ipart].id, m.ipart)]]

SwapMove_rejectMove(m, S) ==
    [m |-> m, S |-> [S EXCEPT !.trial[m.ipart] = S.p[m.ipart]]]

\* ------------------------------------------------------------------------
\* SwapCharge
\* ------------------------------------------------------------------------

\* SwapCharge::swappableParticles as the program fills it: the salt ions
swappableParticles(S) == GroupIdx(S.groups[saltGroup(S)])

SwapCharge_trialMove(m, S, ch) ==
    { [m |-> [m EXCEPT !.ip = i, !.jp = j],
       S |-> IF S.trial[i].q # S.trial[j].q
             THEN [S EXCEPT !.trial[i].q = S.trial[j].q,
                            !.trial[j].q = S.trial[i].q]
             ELSE S,
       change |-> ch]
      : i \in swappableParticles(S), j \in swappableParticles(S) }

SwapCharge_energyChange(m, S, ch) ==
    { [du |-> IF m.ip = m.jp
              THEN 2 * (external(S.trial[m.ip]) - external(S.p[m.ip]))
              ELSE external(S.trial[m.jp]) + external(S.trial[m.ip])
                 - external(S.p[m.jp]) - external(S.p[m.ip]),
       m |-> m, S |-> S] }

\* An acceptance that commits the charge of the first particle only
SwapCharge_acceptMove_first(m, S) ==
    [m |-> m, S |-> [S EXCEPT !.p[m.ip].q = S.trial[m.ip].q]]

SwapCharge_acceptMove(m, S) ==
    [m |-> m,
     S |-> [[S EXCEPT !.p[m.ip].q = S.trial[m.ip].q]
               EXCEPT !.p[m.jp].q = S.trial[m.jp].q]]

SwapCharge_rejectMove(m, S) ==
    [m |-> m,
     S |-> [[S EXCEPT !.trial[m.ip].q = S.p[m.ip].q]
               EXCEPT !.trial[m.jp].q = S.p[m.jp].q]]

\* ------------------------------------------------------------------------
\* ParallelTempering, on rank 0 of two replicas
\* ------------------------------------------------------------------------

\* ParallelTempering::goodPartner
\* A test that lets every rank above the own one pass
goodPartner_unbounded(m) == m.partner >= 0 /\ m.partner # m.rank

goodPartner(m) ==
    m.partner >= 0 /\ m.partner < m.nproc /\ m.partner # m.rank

\* A partner search that never mirrors the step
findPartner_up(rank, v) == rank + (IF v > 50 THEN 1 ELSE -1)

\* ParallelTempering::findPartner: one step up or down on the variate v of
\* the generator of the MPI controller, mirrored on odd ranks
findPartner(rank, v) ==
    LET dr == IF v > 50 THEN 1 ELSE -1
    IN IF rank % 2 = 0 THEN rank + dr ELSE rank - dr

\* _trialMove with a valid partner: the particles recv and the volume vol
\* of the partner are received in trial, the own volume is kept for sending
ParallelTempering_receive(m, S, recv, vol) ==
    LET T == [S EXCEPT !.trial = recv]
    IN [m |-> [m EXCEPT !.sendVolume = S.geo, !.recvVolume = vol],
        S |-> [T EXCEPT !.groups = [g \in DOMAIN T.groups |->
                  [T.groups[g] EXCEPT
                      !.cm_trial = massCenter(T.trial, T.groups[g])]]]]

\* An exchange of energies that returns the own energy change alone
ParallelTempering_exchanged_own(m, S, d, du_partner) ==
    [du |-> d,
     m |-> [m EXCEPT !.alternateReturnEnergy = d],
     S |-> [S EXCEPT !.geo = m.recvVolume]]

\* _energyChange with a valid partner: the own energy change d, the
\* partner's volume set, the energy changes exchanged
ParallelTempering_exchanged(m, S, d, du_partner) ==
    [du |-> d + du_partner,
     m |-> [m EXCEPT !.alternateReturnEnergy = d],
     S |-> [S EXCEPT !.geo = m.recvVolume]]

\* Configurations the partner replica may send: the same particles, all
\* in one cell
PartnerConfigs(S) ==
    { [i \in DOMAIN S.p |-> [S.p[i] EXCEPT !.x = c]] : c \in {0, 1} }

ParallelTempering_trialMove(m, S, ch) ==
    { [m |-> [m EXCEPT !.partner = -1], S |-> S, change |-> ch] }
    \cup
    { LET o == ParallelTempering_receive([m EXCEPT !.partner = 1], S, recv, vol)
      IN [m |-> o.m, S |-> o.S, change |-> ch]
      : recv \in PartnerConfigs(S), vol \in Lens }

ParallelTempering_energyChange(m, S, ch) ==
    IF ~goodPartner(m)
    THEN { [du |-> Infty, m |-> [m EXCEPT !.alternateReturnEnergy = 0],
            S |-> S] }
    ELSE { ParallelTempering_exchanged(m, S,
               systemEnergy(S.trial) - systemEnergy(S.p), du_partner)
           : du_partner \in {-1, 1} }

ParallelTempering_acceptMove(m, S) ==
    IF goodPartner(m)
    THEN [m |-> m,
          S |-> [S EXCEPT !.p = S.trial,
                    !.groups = [g \in DOMAIN S.groups |->
                        [S.groups[g] EXCEPT !.cm = S.groups[g].cm_trial]]]]
    ELSE [m |-> m, S |-> S]

\* A rejection that leaves the partner's volume in place
ParallelTempering_rejectMove_keepVolume(m, S) ==
    IF goodPartner(m)
    THEN [m |-> m,
          S |-> [S EXCEPT !.trial = S.p,
                    !.groups = [g \in DOMAIN S.groups |->
                        [S.groups[g] EXCEPT !.cm_trial = S.groups[g].cm]]]]
    ELSE [m |-> m, S |-> S]

ParallelTempering_rejectMove(m, S) ==
    IF goodPartner(m)
    THEN [m |-> m,
          S |-> [S EXCEPT !.geo = m.sendVolume, !.trial = S.p,
                    !.groups = [g \in DOMAIN S.groups |->
                        [S.groups[g] EXCEPT !.cm_trial = S.groups[g].cm]]]]
    ELSE [m |-> m, S |-> S]

\* ------------------------------------------------------------------------
\* Reptation (bondlength is kept in dp; 0 stands for "not given")
\* ------------------------------------------------------------------------

\* |a - b|
AbsDiff(a, b) == IF a < b THEN b - a ELSE a - b

\* The end point moves by the bond length along a random unit vector
ReptationSteps(bond, len) == {bond % (len + 1), (len + 1 - bond) % (len + 1)}

\* The positions of the chain shifted by one bead, away from the end "first"
Reptation_shift(S, g, fromFront) ==
    [i \in DOMAIN S.trial |->
        IF fromFront /\ i > S.groups[g].front /\ i <= S.groups[g].back
        THEN [S.trial[i] EXCEPT !.x = S.p[i - 1].x]
        ELSE IF ~fromFront /\ i >= S.groups[g].front /\ i < S.groups[g].back
        THEN [S.trial[i] EXCEPT !.x = S.p[i + 1].x]
        ELSE S.trial[i]]

Reptation_trialMove(m, S, ch) ==
    UNION { IF GroupSize(S.groups[g]) < 2
            THEN { [m |-> [m EXCEPT !.igroup = g, !.threw = TRUE],
                    S |-> S, change |-> ch] }
            ELSE UNION { LET first  == IF fromFront THEN S.groups[g].front
                                       ELSE S.groups[g].back
                             second == IF fromFront THEN first + 1 ELSE first - 1
                             bond   == IF m.dp > 0 THEN m.dp
                                       ELSE AbsDiff(S.p[first].x, S.p[second].x)
                         IN { LET T == [S EXCEPT
                                  !.trial = [Reptation_shift(S, g, fromFront)
                                      EXCEPT ![first].x =
                                          translate(@, d, S.geo)]]
                              IN [m |-> [m EXCEPT !.igroup = g],
                                  S |-> [T EXCEPT !.groups[g].cm_trial =
                                            massCenter(T.trial, T.groups[g])],
                                  change |-> ch]
                              : d \in ReptationSteps(bond, S.geo) }
                         : fromFront \in BOOLEAN }
          : g \in findMolecules(S, m.currentMolId) }

Reptation_energyChange(m, S, ch) ==
    LET I == GroupIdx(S.groups[m.igroup])
    IN { [du |-> IF \E i \in I : collision(S.trial[i], S.geo) THEN Infty
                 ELSE systemEnergy(S.trial) - systemEnergy(S.p),
          m |-> m, S |-> S] }

Reptation_acceptMove(m, S) == [m |-> m, S |-> Group_accept(S, m.igroup)]

Reptation_rejectMove(m, S) == [m |-> m, S |-> Group_undo(S, m.igroup)]

\* ------------------------------------------------------------------------
\* TranslateRotateCluster
\* ------------------------------------------------------------------------

\* ClusterProbability of particle i of the vector vec around the group g,
\* in hundredths
ClusterProbability_centres(threshold, S, g, vec, i) ==
    IF \E j \in GroupIdx(S.groups[g]) :
          i # j /\ sqdist(vec[i], vec[j]) < threshold * threshold
    THEN 100 ELSE 0

ClusterProbability(threshold, S, g, vec, i) ==
    IF \E j \in GroupIdx(S.groups[g]) :
          /\ i # j
          /\ LET r == threshold + AtomRadius[vec[i].id] + AtomRadius[vec[j].id]
             IN sqdist(vec[i], vec[j]) < r * r
    THEN 100 ELSE 0

\* The trial particles of the set I rotated about c2/2 or translated by d
MoveParticles(S, I, turn, c2, d) ==
    [S EXCEPT !.trial = [i \in DOMAIN S.trial |->
        IF i \in I
        THEN [S.trial[i] EXCEPT !.x =
                 translate(IF turn THEN rotate(@, c2, S.geo) ELSE @, d, S.geo)]
        ELSE S.trial[i]]]

TranslateRotateCluster_trialMove(m, S, ch) ==
    UNION { { LET mob == GroupIdx(S.groups[m.gmobile])
                  cindex == Keep([k \in 1 .. Len(S.p) |-> k],
                      {i \in mob : \A u \in RunDraws :
                          ClusterProbability(m.threshold, S, g, S.p, i) > u})
                  T0 == IF m.dp_rot > 0
                        THEN MoveParticles(S, Range(cindex), turn,
                                           2 * S.groups[g].cm, 0)
                        ELSE S
                  T1 == IF m.dp > 0
                        THEN MoveParticles(Group_translate(T0, g, d),
                                           Range(cindex), FALSE, 0, d)
                        ELSE T0
              IN [m |-> [m EXCEPT !.igroup = g, !.cindex = cindex],
                  S |-> T1, change |-> ch]
              : d \in Disp, turn \in BOOLEAN }
          : g \in findMolecules(S, m.currentMolId) }

TranslateRotateCluster_acceptMove(m, S) ==
    LET T == Group_accept(S, m.igroup)
    IN [m |-> m,
        S |-> [T EXCEPT !.p = [i \in DOMAIN T.p |->
                  IF i \in Range(m.cindex) THEN T.trial[i] ELSE T.p[i]]]]

TranslateRotateCluster_rejectMove(m, S) ==
    LET T == Group_undo(S, m.igroup)
    IN [m |-> m,
        S |-> [T EXCEPT !.trial = [i \in DOMAIN T.trial |->
                  IF i \in Range(m.cindex) THEN T.p[i] ELSE T.trial[i]]]]

\* The cluster bias, in hundredths: the product over the mobile particles
\* outside of the cluster of (1 - P(trial)) / (1 - P(p))
\* The product, in hundredths, of the factors f[l] (in hundredths), l in I
RECURSIVE ProductOver(_, _)
ProductOver(f, I) ==
    IF I = {} THEN 100
    ELSE LET l == CHOOSE l \in I : TRUE
         IN (f[l] * ProductOver(f, I \ {l})) \div 100

\* A bias that takes the old configuration for the new one
TranslateRotateCluster_bias_old(m, S) ==
    LET out == GroupIdx(S.groups[m.gmobile]) \ Range(m.cindex)
    IN ProductOver([l \in out |->
           ((100 - ClusterProbability(m.threshold, S, m.igroup, S.p, l)) * 100)
           \div (100 - ClusterProbability(m.threshold, S, m.igroup, S.p, l))],
         out)

\* The bias, in hundredths: the product over the mobile particles l that
\* are not in the cluster of (1 - P(trial, l)) / (1 - P(p, l))
TranslateRotateCluster_bias(m, S) ==
    LET out == GroupIdx(S.groups[m.gmobile]) \ Range(m.cindex)
    IN ProductOver([l \in out |->
           ((100 - ClusterProbability(m.threshold, S, m.igroup, S.trial, l)) * 100)
           \div (100 - ClusterProbability(m.threshold, S, m.igroup, S.p, l))],
         out)

\* log(bias), in hundredths, of a bias the 0/1 cluster probability gives
LogBias(b) == IF b = 100 THEN 0 ELSE -Infty

TranslateRotateCluster_energyChange(m, S, ch) ==
    LET imoved == Range(m.cindex) \cup GroupIdx(S.groups[m.igroup])
        static == DOMAIN S.p \ imoved
        K      == imoved \X static
        unew   == g_external(S.trial, S.groups[m.igroup])
                  + SumOver([i \in Range(m.cindex) |-> external(S.trial[i])],
                            Range(m.cindex))
        uold   == g_external(S.p, S.groups[m.igroup])
                  + SumOver([i \in Range(m.cindex) |-> external(S.p[i])],
                            Range(m.cindex))
        du     == SumOver([k \in K |-> i2i(S.trial[k[1]], S.trial[k[2]])
                                       - i2i(S.p[k[1]], S.p[k[2]])], K)
        bias   == TranslateRotateCluster_bias(m, S)
    IN { [du |-> IF bias < 1 THEN Infty
                 ELSE IF m.dp_rot = 0 /\ m.dp = 0 THEN 0
                 ELSE IF \E i \in imoved : collision(S.trial[i], S.geo)
                 THEN Infty
                 ELSE unew - uold + du - LogBias(bias),
          m |-> m, S |-> S] }

\* ------------------------------------------------------------------------
\* ClusterMove (one molecule type, no static molecules in the input)
\* ------------------------------------------------------------------------

\* The index of the molecule type id in spc->molList(), from 0
MolIndex(S, id) == (CHOOSE t \in DOMAIN S.molList : S.molList[t] = id) - 1

\* gstatic.at(id): the type indices of the "staticmol" names for a type of
\* mollist, nothing for another type
gstatic(m, S, id) ==
    IF id \in DOMAIN m.mollist
    THEN {MolIndex(S, a) : a \in m.staticmol} ELSE {}

\* threshold.at(id): the threshold of the input for a type of mollist, 0
\* for another type
ClusterMove_threshold(m, id) ==
    IF id \in DOMAIN m.mollist THEN m.threshold ELSE 0

\* findMolecules(cntI): the groups of the type of index cntI, in the order
\* of the group list
findMoleculesAt(S, cntI) ==
    IF cntI + 1 \in DOMAIN S.molList
    THEN Keep(Iota(Len(S.groups)), findMolecules(S, S.molList[cntI + 1]))
    ELSE <<>>

\* getClusterAroundMolecule(g): one pass of the loop over the molecule
\* types for each position t of molList, with the counter cntI that a
\* static type leaves as it is; the groups gvec of the type of index cntI
\* are visited, and a group with a particle that ClusterProbability puts in
\* the cluster joins cindex and its surroundings are visited in turn
RECURSIVE getClusterAroundMolecule_types(_, _, _, _, _, _)
RECURSIVE getClusterAroundMolecule_groups(_, _, _, _, _)
getClusterAroundMolecule_groups(m, S, g, gvec, cindex) ==
    IF gvec = <<>> THEN cindex
    ELSE LET g0  == Head(gvec)
             hit == \E i \in GroupIdx(S.groups[g0]) : \A u \in RunDraws :
                       ClusterProbability(
                           ClusterMove_threshold(m, S.groups[g].molId),
                           S, g, S.p, i) > u
         IN getClusterAroundMolecule_groups(m, S, g, Tail(gvec),
                IF hit /\ g0 \notin Range(cindex)
                THEN getClusterAroundMolecule_types(m, S, g0, 1, 0,
                                                    Append(cindex, g0))
                ELSE cindex)



getClusterAroundMolecule_types(m, S, g, t, cntI, cindex) ==
    IF t > Len(S.molList) THEN cindex
    ELSE IF cntI \in gstatic(m, S, S.groups[g].molId)
    THEN getClusterAroundMolecule_types(m, S, g, t + 1, cntI, cindex)
    ELSE getClusterAroundMolecule_types(m, S, g, t + 1, cntI + 1,
             getClusterAroundMolecule_groups(m, S, g,
                 findMoleculesAt(S, cntI), cindex))

getClusterAroundMolecule(m, S, g, cindex) ==
    getClusterAroundMolecule_types(m, S, g, 1, 0, cindex)

\* The particles of the groups of cindex
ClusterParticles(S, cindex) ==
    UNION {GroupIdx(S.groups[k]) : k \in Range(cindex)}

MaxOf(T) == CHOOSE x \in T : \A y \in T : y <= x

\* sqrt4_big: the largest distance of a cluster particle from the cluster
\* centre plus the largest distance within a molecule exceeds half the box
\* length (all terms multiplied by the number n of cluster particles)
ClusterMove_tooBig(S, cindex) ==
    LET I   == ClusterParticles(S, cindex)
        n   == Cardinality(I)
        sum == SumX(S.p, I)
        ald == MaxOf({dist(S.trial[k[1]], S.trial[k[2]]) :
                        k \in {h \in I \X I : findGroup(S, h[1]) = findGroup(S, h[2])}})
        ld  == MaxOf({IF n * S.p[l].x >= sum THEN n * S.p[l].x - sum
                      ELSE sum - n * S.p[l].x : l \in I})
    IN 2 * (ld + n * ald) > n * S.geo

\* Group::rotatecluster: the trial particles of the group turn about c2/2
Group_rotatecluster(S, g, c2) ==
    LET T == MoveParticles(S, GroupIdx(S.groups[g]), TRUE, c2, 0)
    IN [T EXCEPT !.groups[g].cm_trial = massCenter(T.trial, T.groups[g])]

\* One step for every group of cindex in turn: "rotate", "translate",
\* "accept" or "undo"
RECURSIVE ClusterMove_each(_, _, _, _, _)
ClusterMove_each(S, cindex, step, c2, d) ==
    IF cindex = <<>> THEN S
    ELSE LET g == Head(cindex)
         IN ClusterMove_each(
                CASE step = "rotate" -> Group_rotatecluster(S, g, c2)
                  [] step = "translate" -> Group_translate(S, g, d)
                  [] step = "accept" -> Group_accept(S, g)
                  [] OTHER -> Group_undo(S, g),
                Tail(cindex), step, c2, d)

ClusterMove_trialMove(m, S, ch) ==
    UNION { LET cindex == getClusterAroundMolecule(m, S, g, <<g>>)
                I   == ClusterParticles(S, cindex)
                n   == Cardinality(I)
                sum == SumX(S.p, I)
                m1  == [m EXCEPT !.igroup = g, !.cindex = cindex]
            IN IF m.dp_rot > 0
               THEN IF ClusterMove_tooBig(S, cindex)
                    THEN { [m |-> m1, S |-> S, change |-> ch] }
                    ELSE { [m |-> m1,
                            S |-> IF turn /\ (2 * sum) % n = 0
                                  THEN ClusterMove_each(S, cindex, "rotate",
                                                        (2 * sum) \div n, 0)
                                  ELSE S,
                            change |-> ch] : turn \in BOOLEAN }
               ELSE { [m |-> m1,
                       S |-> ClusterMove_each(S, cindex, "translate", 0, d),
                       change |-> ch]
                      : d \in IF m.dp > 0 THEN Disp \ {0} ELSE {0} }
          : g \in findMolecules(S, m.currentMolId) }

ClusterMove_acceptMove(m, S) ==
    LET b == TranslateRotate_acceptMove(m, S)
    IN [m |-> b.m, S |-> ClusterMove_each(b.S, m.cindex, "accept", 0, 0)]

ClusterMove_rejectMove(m, S) ==
    LET b == TranslateRotate_rejectMove(m, S)
    IN [m |-> b.m, S |-> ClusterMove_each(b.S, m.cindex, "undo", 0, 0)]

\* The loop of _energyChange over the groups l of the group list for the
\* cluster group k: it ends at the first group of the cluster; a group
\* before it, of a type that is not static for k, that is in reach of k in
\* one of p and trial only makes the energy infinite
RECURSIVE ClusterMove_biasInfinite(_, _, _, _)
ClusterMove_biasInfinite(m, S, k, l) ==
    IF l > Len(S.groups) \/ l \in Range(m.cindex) THEN FALSE
    ELSE LET th == ClusterMove_threshold(m, S.groups[k].molId)
             a == \E t \in GroupIdx(S.groups[l]) :
                     ClusterProbability(th, S, k, S.trial, t) = 100
             b == \E t \in GroupIdx(S.groups[l]) :
                     ClusterProbability(th, S, k, S.p, t) = 100
             is_static == MolIndex(S, S.groups[l].molId)
                              \in gstatic(m, S, S.groups[k].molId)
         IN (~is_static /\ a # b) \/ ClusterMove_biasInfinite(m, S, k, l + 1)

ClusterMove_energyChange(m, S, ch) ==
    LET C    == Range(m.cindex)
        I    == ClusterParticles(S, m.cindex)
        Kext == (C \X (DOMAIN S.groups \ C))
                  \cup {k \in C \X C : k[1] < k[2]}
        u(vec) == SumOver([k \in C |-> g_external(vec, S.groups[k])], C)
                  + SumOver([k \in Kext |->
                        g2g(vec, S.groups[k[1]], S.groups[k[2]])], Kext)
        early == IF \E k \in C : ClusterMove_biasInfinite(m, S, k, 1)
                 THEN Infty
                 ELSE IF m.dp_rot = 0 /\ m.dp = 0 THEN 0
                 ELSE IF \E i \in I : collision(S.trial[i], S.geo) THEN Infty
                 ELSE -1
    IN { IF early # -1 THEN [du |-> early, m |-> m, S |-> S]
         ELSE [du |-> u(S.trial) - u(S.p),
               m |-> [m EXCEPT !.alternateReturnEnergy = u(S.trial) - u(S.p)],
               S |-> S] }

\* ------------------------------------------------------------------------
\* ClusterTranslateNR
\* ------------------------------------------------------------------------

\* The sum of pot->g2g(p, g[i], g[j]) over the pairs i < j of the group list
ClusterTranslateNR_pairSum(S) ==
    LET K == {k \in (DOMAIN S.groups) \X (DOMAIN S.groups) : k[1] < k[2]}
    IN SumOver([k \in K |-> g2g(S.p, S.groups[k[1]], S.groups[k[2]])], K)

\* slump() < 1 - exp(-udiff), on the variate u
ClusterTranslateNR_recruits(u, udiff) == u < 100 - ExpNeg(udiff)

\* The loop over moved from position i on: the group is translated, groups
\* of remaining are recruited on their energy with it, the group is accepted
RECURSIVE ClusterTranslateNR_grow(_, _, _, _, _)
ClusterTranslateNR_grow(S, moved, remaining, i, d) ==
    IF i > Len(moved)
    THEN {[S |-> S, moved |-> moved, remaining |-> remaining]}
    ELSE LET T == Group_translate(S, moved[i], d)
             udiff(j) == g2g(T.trial, T.groups[moved[i]], T.groups[j])
                         - g2g(T.p, T.groups[moved[i]], T.groups[j])
             Picks == {J \in SUBSET Range(remaining) :
                         \A k \in Range(remaining) : \E u \in RunDraws :
                            ClusterTranslateNR_recruits(u, udiff(k)) <=> k \in J}
         IN UNION { ClusterTranslateNR_grow(
                        Group_accept(T, moved[i]),
                        moved \o Keep(remaining, J),
                        Keep(remaining, Range(remaining) \ J),
                        i + 1, d) : J \in Picks }

\* A trial that leaves the seed in remaining
ClusterTranslateNR_trialMove_seedKept(m, S, ch) ==
    UNION { { [m |-> [m EXCEPT !.moved = o.moved,
                                  !.remaining = o.remaining],
                  S |-> o.S, change |-> ch]
                 : o \in ClusterTranslateNR_grow(S, <<f>>,
                            Iota(Len(S.groups)), 1, d) }
             : f \in DOMAIN S.groups, d \in Disp }

ClusterTranslateNR_trialMove(m, S, ch) ==
    LET S1 == IF m.cnt <= 1 THEN ForAllGroups(setMassCenter, S, 1) ELSE S
    IN UNION { { [m |-> [m EXCEPT !.moved = o.moved,
                                  !.remaining = o.remaining,
                                  !.alternateReturnEnergy =
                                      IF m.skipEnergyUpdate THEN 0
                                      ELSE ClusterTranslateNR_pairSum(o.S)
                                           - ClusterTranslateNR_pairSum(S1)],
                  S |-> o.S, change |-> ch]
                 : o \in ClusterTranslateNR_grow(S1, <<f>>,
                            Keep([k \in 1 .. Len(S.groups) |-> k],
                                 DOMAIN S.groups \ {f}), 1, d) }
             : f \in DOMAIN S.groups, d \in Disp }

\* An energy change that puts the pair energy change to the Metropolis test
ClusterTranslateNR_energyChange_pair(m, S, ch) ==
    { [du |-> m.alternateReturnEnergy, m |-> m, S |-> S] }

ClusterTranslateNR_energyChange(m, S, ch) == { [du |-> 0, m |-> m, S |-> S] }

ClusterTranslateNR_acceptMove(m, S) == [m |-> m, S |-> S]

ClusterTranslateNR_rejectMove(m, S) == [m |-> m, S |-> S]

\* ------------------------------------------------------------------------
\* CrankShaft and Pivot
\* ------------------------------------------------------------------------

\* The particles lo, ..., hi in order
Span(lo, hi) == [k \in 1 .. (IF hi >= lo THEN hi - lo + 1 ELSE 0) |-> lo + k - 1]

\* CrankShaft::findParticles, the test that ends the do-while loop on the
\* draw (beg, end): the number of particles between the end points is
\* within minlen and maxlen
CrankShaft_accepts(m, beg, end) ==
    LET len == AbsDiff(beg, end) - 1
    IN ~(len < m.minlen \/ len > m.maxlen)

\* CrankShaft::findParticles after the loop: the particles between the
\* end points
CrankShaft_index(beg, end) ==
    IF beg > end THEN Span(end + 1, beg - 1) ELSE Span(beg + 1, end - 1)

\* CrankShaft::findParticles: the draws on which it returns
CrankShaft_findParticles(m, S) ==
    { [beg |-> beg, end |-> end, index |-> CrankShaft_index(beg, end)]
      : <<beg, end>> \in
          { d \in GroupIdx(S.groups[m.gPtr]) \X GroupIdx(S.groups[m.gPtr]) :
              CrankShaft_accepts(m, d[1], d[2]) } }

\* Pivot::findParticles, the test that ends the do-while loop: the number
\* of bonds between the end points is within minlen and maxlen
Pivot_accepts(m, beg, end) ==
    LET len == AbsDiff(beg, end)
    IN ~(len < m.minlen \/ len > m.maxlen)

\* Pivot::findParticles after the inner loop: the particles behind end on
\* slump.half() > 0, else the particles in front of end
Pivot_index(S, m, end, half) ==
    IF half THEN Span(end + 1, S.groups[m.gPtr].back)
    ELSE Span(S.groups[m.gPtr].front, end - 1)



\* Pivot::findParticles: the draws on which it returns, index not empty
Pivot_findParticles(m, S) ==
    { f \in { [beg |-> d[1], end |-> d[2],
               index |-> Pivot_index(S, m, d[2], d[3])]
              : d \in { e \in GroupIdx(S.groups[m.gPtr])
                              \X GroupIdx(S.groups[m.gPtr]) \X BOOLEAN :
                          Pivot_accepts(m, e[1], e[2]) } } :
        f.index # << >> }

\* The loop that registers the particles of index in change.mvGroup
RECURSIVE mvPushAll(_, _, _)
mvPushAll(ch, g, index) ==
    IF index = << >> THEN ch
    ELSE mvPushAll(mvPush(ch, g, Head(index)), g, Tail(index))

\* A trial that rotates the end points with the particles between them
CrankShaft_trialMove_ends(m, S, ch) ==
    UNION { LET m1 == [m EXCEPT !.gPtr = g]
            IN { LET I == Range(f.index) \cup {f.beg, f.end}
                     T == MoveParticles(S, I, TRUE,
                                        S.p[f.beg].x + S.p[f.end].x, 0)
                 IN [m |-> [m1 EXCEPT !.beg = f.beg, !.end = f.end,
                                      !.index = f.index],
                     S |-> [T EXCEPT !.groups[g].cm_trial =
                               massCenter(T.trial, T.groups[g])],
                     change |-> mvPushAll(ch, g, f.index)]
                 : f \in CrankShaft_findParticles(m1, S) }
          : g \in findMolecules(S, m.currentMolId) }

\* CrankShaft::_trialMove, with the findParticles of the concrete class:
\* nothing for a group of less than three particles; else the particles of
\* index turn about the axis through the end points (on the lattice: they
\* are mirrored in the middle of the end points, or stay for a small angle)
CrankShaft_trialMove(m, S, ch) ==
    UNION { LET m1 == [m EXCEPT !.gPtr = g]
            IN IF GroupSize(S.groups[g]) < 3
               THEN { [m |-> m1, S |-> S, change |-> ch] }
               ELSE { LET T == MoveParticles(S, Range(f.index), turn,
                                    S.p[f.beg].x + S.p[f.end].x, 0)
                      IN [m |-> [m1 EXCEPT !.beg = f.beg, !.end = f.end,
                                           !.index = f.index],
                          S |-> [T EXCEPT !.groups[g].cm_trial =
                                    massCenter(T.trial, T.groups[g])],
                          change |-> mvPushAll(ch, g, f.index)]
                      : f \in (IF m.kind = "Pivot"
                               THEN Pivot_findParticles(m1, S)
                               ELSE CrankShaft_findParticles(m1, S)),
                        turn \in BOOLEAN }
          : g \in findMolecules(S, m.currentMolId) }

CrankShaft_energyChange(m, S, ch) ==
    { [du |-> potEnergyChange(S, ch), m |-> m, S |-> S] }

\* An acceptance that leaves the mass centre of the group as it was
CrankShaft_acceptMove_cm(m, S) ==
    [m |-> m,
     S |-> [S EXCEPT !.p = [i \in DOMAIN S.p |->
               IF i \in Range(m.index) THEN S.trial[i] ELSE S.p[i]]]]

CrankShaft_acceptMove(m, S) ==
    [m |-> m,
     S |-> [S EXCEPT !.p = [i \in DOMAIN S.p |->
                        IF i \in Range(m.index) THEN S.trial[i] ELSE S.p[i]],
                     !.groups[m.gPtr].cm = S.groups[m.gPtr].cm_trial]]

CrankShaft_rejectMove(m, S) ==
    [m |-> m,
     S |-> [S EXCEPT !.trial = [i \in DOMAIN S.trial |->
                        IF i \in Range(m.index) THEN S.p[i] ELSE S.trial[i]],
                     !.groups[m.gPtr].cm_trial = S.groups[m.gPtr].cm]]

\* ------------------------------------------------------------------------
\* ConformationSwap
\* ------------------------------------------------------------------------

\* RandomInserter on the conformations of the molecule of the group g, with
\* the offset at the mass centre: the conformation turned about the mass
\* centre, the conformation as it is, one that lies off the mass centre and
\* one of an atom less
Conformations(S, g) ==
    LET grp == S.groups[g]
        k   == GroupSize(grp)
        xs  == [j \in 1 .. k |-> S.p[grp.front + j - 1].x]
    IN { [j \in 1 .. k |-> xs[k + 1 - j]],
         xs,
         [j \in 1 .. k |-> IF j = k THEN translate(xs[j], 1, S.geo - 1)
                           ELSE xs[j]],
         [j \in 1 .. k - 1 |-> xs[j]] }

\* std::copy of the conformation pnew over the trial particles of the group
ConformationSwap_copy(S, g, pnew) ==
    [S EXCEPT !.trial = [i \in DOMAIN S.trial |->
        IF i \in GroupIdx(S.groups[g])
        THEN [S.trial[i] EXCEPT !.x = pnew[i - S.groups[g].front + 1]]
        ELSE S.trial[i]]]

ConformationSwap_trialMove(m, S, ch) ==
    UNION { { LET m1 == [m EXCEPT !.igroup = g]
                  T  == ConformationSwap_copy(S, g, pnew)
                  T1 == [T EXCEPT !.groups[g].cm_trial =
                                     massCenter(T.trial, T.groups[g])]
              IN IF Len(pnew) # GroupSize(S.groups[g])
                 THEN [m |-> [m1 EXCEPT !.threw = TRUE],
                       S |-> S, change |-> ch]
                 ELSE IF T1.groups[g].cm_trial # T1.groups[g].cm
                 THEN [m |-> [m1 EXCEPT !.threw = TRUE],
                       S |-> T1, change |-> ch]
                 ELSE [m |-> m1, S |-> T1, change |-> ch]
              : pnew \in Conformations(S, g) }
          : g \in findMolecules(S, m.currentMolId) }

\* base::_energyChange() with dp_trans = 1; the potential has no energy
\* within a molecule
ConformationSwap_energyChange(m, S, ch) ==
    { [du |-> potEnergyChange(S, ch),
       m |-> [m EXCEPT !.alternateReturnEnergy = potEnergyChange(S, ch)],
       S |-> S] }

\* ------------------------------------------------------------------------
\* Virtual dispatch on the concrete move
\* ------------------------------------------------------------------------

Tmove_run(m, S, r) ==
    CASE m.kind = "AtomicTranslation" -> AtomicTranslation_run(m, S, r)
      [] OTHER -> run(r, m.runfraction)

Tmove_trialMove(m, S, ch) ==
    CASE m.kind = "AtomicTranslation" -> AtomicTranslation_trialMove(m, S, ch)
      [] m.kind = "TranslateRotate" -> TranslateRotate_trialMove(m, S, ch)
      [] m.kind = "ConformationSwap" -> ConformationSwap_trialMove(m, S, ch)
      [] m.kind = "Isobaric" -> Isobaric_trialMove(m, S, ch)
      [] m.kind = "Isochoric" -> Isochoric_trialMove(m, S, ch)
      [] m.kind = "GrandCanonicalSalt" -> GrandCanonicalSalt_trialMove(m, S, ch)
      [] m.kind = "GrandCanonicalTitration" ->
            GrandCanonicalTitration_trialMove(m, S, ch)
      [] m.kind = "SwapMove" -> SwapMove_trialMove(m, S, ch)
      [] m.kind = "SwapCharge" -> SwapCharge_trialMove(m, S, ch)
      [] m.kind = "ParallelTempering" -> ParallelTempering_trialMove(m, S, ch)
      [] m.kind = "Reptation" -> Reptation_trialMove(m, S, ch)
      [] m.kind = "ClusterTranslateNR" -> ClusterTranslateNR_trialMove(m, S, ch)
      [] m.kind = "TranslateRotateCluster" ->
            TranslateRotateCluster_trialMove(m, S, ch)
      [] m.kind = "ClusterMove" -> ClusterMove_trialMove(m, S, ch)
      [] m.kind \in {"CrankShaft", "Pivot"} -> CrankShaft_trialMove(m, S, ch)

Tmove_energyChange(m, S, ch) ==
    CASE m.kind = "AtomicTranslation" -> AtomicTranslation_energyChange(m, S, ch)
      [] m.kind = "TranslateRotate" -> TranslateRotate_energyChange(m, S, ch)
      [] m.kind = "ConformationSwap" ->
            ConformationSwap_energyChange(m, S, ch)
      [] m.kind \in {"Isobaric", "Isochoric"} -> Isobaric_energyChange(m, S, ch)
      [] m.kind = "GrandCanonicalSalt" -> GrandCanonicalSalt_energyChange(m, S, ch)
      [] m.kind = "GrandCanonicalTitration" ->
            GrandCanonicalTitration_energyChange(m, S, ch)
      [] m.kind = "SwapMove" -> SwapMove_energyChange(m, S, ch)
      [] m.kind = "SwapCharge" -> SwapCharge_energyChange(m, S, ch)
      [] m.kind = "ParallelTempering" -> ParallelTempering_energyChange(m, S, ch)
      [] m.kind = "Reptation" -> Reptation_energyChange(m, S, ch)
      [] m.kind = "ClusterTranslateNR" ->
            ClusterTranslateNR_energyChange(m, S, ch)
      [] m.kind = "TranslateRotateCluster" ->
            TranslateRotateCluster_energyChange(m, S, ch)
      [] m.kind = "ClusterMove" -> ClusterMove_energyChange(m, S, ch)
      [] m.kind \in {"CrankShaft", "Pivot"} -> CrankShaft_energyChange(m, S, ch)

Tmove_acceptMove(m, S) ==
    CASE m.kind = "AtomicTranslation" -> AtomicTranslation_acceptMove(m, S)
      [] m.kind \in {"TranslateRotate", "ConformationSwap"} ->
            TranslateRotate_acceptMove(m, S)
      [] m.kind \in {"Isobaric", "Isochoric"} -> Isobaric_acceptMove(m, S)
      [] m.kind = "GrandCanonicalSalt" -> GrandCanonicalSalt_acceptMove(m, S)
      [] m.kind = "GrandCanonicalTitration" ->
            GrandCanonicalTitration_acceptMove(m, S)
      [] m.kind = "SwapMove" -> SwapMove_acceptMove(m, S)
      [] m.kind = "SwapCharge" -> SwapCharge_acceptMove(m, S)
      [] m.kind = "ParallelTempering" -> ParallelTempering_acceptMove(m, S)
      [] m.kind = "Reptation" -> Reptation_acceptMove(m, S)
      [] m.kind = "ClusterTranslateNR" -> ClusterTranslateNR_acceptMove(m, S)
      [] m.kind = "TranslateRotateCluster" ->
            TranslateRotateCluster_acceptMove(m, S)
      [] m.kind = "ClusterMove" -> ClusterMove_acceptMove(m, S)
      [] m.kind \in {"CrankShaft", "Pivot"} -> CrankShaft_acceptMove(m, S)

Tmove_rejectMove(m, S) ==
    CASE m.kind = "AtomicTranslation" -> AtomicTranslation_rejectMove(m, S)
      [] m.kind \in {"TranslateRotate", "ConformationSwap"} ->
            TranslateRotate_rejectMove(m, S)
      [] m.kind \in {"Isobaric", "Isochoric"} -> Isobaric_rejectMove(m, S)
      [] m.kind = "GrandCanonicalSalt" -> GrandCanonicalSalt_rejectMove(m, S)
      [] m.kind = "GrandCanonicalTitration" ->
            GrandCanonicalTitration_rejectMove(m, S)
      [] m.kind = "SwapMove" -> SwapMove_rejectMove(m, S)
      [] m.kind = "SwapCharge" -> SwapCharge_rejectMove(m, S)
      [] m.kind = "ParallelTempering" -> ParallelTempering_rejectMove(m, S)
      [] m.kind = "Reptation" -> Reptation_rejectMove(m, S)
      [] m.kind = "ClusterTranslateNR" -> ClusterTranslateNR_rejectMove(m, S)
      [] m.kind = "TranslateRotateCluster" ->
            TranslateRotateCluster_rejectMove(m, S)
      [] m.kind = "ClusterMove" -> ClusterMove_rejectMove(m, S)
      [] m.kind \in {"CrankShaft", "Pivot"} -> CrankShaft_rejectMove(m, S)

\* ------------------------------------------------------------------------
\* PolarizeMove<Tmove>
\* ------------------------------------------------------------------------

\* PolarizeMove::induceDipoles: every particle takes the dipole the field
\* induces (polarizability 1, field 1 in cell 1, no permanent dipole)
induceDipoles(vec) ==
    [i \in DOMAIN vec |-> [vec[i] EXCEPT !.mu = IF vec[i].x = 1 THEN 1 ELSE 0]]

\* A trial that updates the dipoles on the first inner trial
PolarizeMove_trialMove_first(m, S, ch) ==
    { LET updateDip == o.m.Ntrials + 1 = 1
      IN [m |-> [o.m EXCEPT !.Ntrials = @ + 1, !.updateDip = updateDip],
          S |-> IF updateDip
                THEN [o.S EXCEPT !.trial = induceDipoles(@)] ELSE o.S,
          change |-> o.change]
      : o \in Tmove_trialMove(m, S, ch) }

PolarizeMove_trialMove(m, S, ch) ==
    { LET hasList  == DOMAIN o.m.mollist # {}
          Ntrials  == IF hasList THEN o.m.Ntrials + 1 ELSE 1
          updateAt == IF hasList THEN o.m.mollist[o.m.currentMolId].repeat
                      ELSE 1
          updateDip == Ntrials = updateAt
      IN [m |-> [o.m EXCEPT !.Ntrials = Ntrials, !.updateDip = updateDip],
          S |-> IF updateDip
                THEN [o.S EXCEPT !.trial = induceDipoles(@)] ELSE o.S,
          change |-> o.change]
      : o \in Tmove_trialMove(m, S, ch) }

PolarizeMove_energyChange(m, S, ch) ==
    IF m.updateDip
    THEN { [du |-> systemEnergyChange(S), m |-> m, S |-> S] }
    ELSE Tmove_energyChange(m, S, ch)

\* A rejection that restores only what the wrapped move touched
PolarizeMove_rejectMove_baseOnly(m, S) == Tmove_rejectMove(m, S)

PolarizeMove_rejectMove(m, S) ==
    LET r == Tmove_rejectMove(m, S)
    IN IF m.updateDip THEN [m |-> r.m, S |-> [r.S EXCEPT !.trial = r.S.p]]
       ELSE r

PolarizeMove_acceptMove(m, S) ==
    LET r == Tmove_acceptMove(m, S)
    IN IF m.updateDip THEN [m |-> r.m, S |-> [r.S EXCEPT !.p = r.S.trial]]
       ELSE r

\* PolarizeMove::move: Ntrials = 0 before Tmove::move
PolarizeMove_move(m) == IF m.polarize THEN [m EXCEPT !.Ntrials = 0] ELSE m

\* ------------------------------------------------------------------------
\* Movebase: the non-virtual wrappers
\* ------------------------------------------------------------------------

\* Movebase::trialMove: mass centres on the first trial, attempt counter,
\* then the move's own _trialMove
trialMove(m, S, ch) ==
    LET m1 == [m EXCEPT !.cnt = @ + 1]
        S1 == IF m.cnt = 0 THEN setMassCenterAll(S) ELSE S
    IN IF m.polarize THEN PolarizeMove_trialMove(m1, S1, ch)
       ELSE Tmove_trialMove(m1, S1, ch)

\* Movebase::acceptMove
acceptMove(m, S) ==
    LET m1 == [m EXCEPT !.cnt_accepted = @ + 1]
    IN IF m.polarize THEN PolarizeMove_acceptMove(m1, S)
       ELSE Tmove_acceptMove(m1, S)

\* Movebase::rejectMove
rejectMove(m, S) ==
    IF m.polarize THEN PolarizeMove_rejectMove(m, S)
    ELSE Tmove_rejectMove(m, S)

\* Movebase::energyChange
energyChange(m, S, ch) ==
    IF m.polarize THEN PolarizeMove_energyChange(m, S, ch)
    ELSE Tmove_energyChange(m, S, ch)

\* An accepted energy that ignores the alternative return energy
AcceptedEnergy_du(m, e) == e

\* The energy added to dusum and utot for an accepted trial
AcceptedEnergy(m, e) ==
    IF m.useAlternativeReturnEnergy THEN m.alternateReturnEnergy ELSE e

\* A trial that ends without clearing the change object
clearChange_skipped(ch) == ch

\* Change::clear at the end of a trial
clearChange(ch) == EmptyChange

\* ------------------------------------------------------------------------
\* Configurations of a run
\* ------------------------------------------------------------------------

\* Molecule lists of the input: "mol" entries run with probability 0.5
MolLists == { [id \in D |-> MolListData(IF id = "mol" THEN 50 ELSE 100, a, b)] :
              D \in {{"mol"}, {"salt"}, {"mol", "salt"}},
              a \in BOOLEAN, b \in BOOLEAN }

\* The move lists (mPtr) a Propagator is constructed with
Configs ==
    { << Movebase("AtomicTranslation", ml, 100, FALSE) >> : ml \in MolLists }
  \cup { << [Movebase("TranslateRotate",
                      [id \in {"mol"} |-> MolListData(50, FALSE, b)],
                      100, FALSE) EXCEPT !.dp = d] >>
         : b \in BOOLEAN, d \in {0, 1} }
  \cup { << Movebase("Isobaric", NoMolList, pr, FALSE) >> : pr \in Probs }
  \cup { << Movebase("Isochoric", NoMolList, pr, FALSE) >> : pr \in Probs }
  \cup { << [Movebase("GrandCanonicalSalt", NoMolList, pr, TRUE)
                EXCEPT !.map = IonTypes(InitSpace)] >> : pr \in Probs }
  \cup { << [Movebase("GrandCanonicalTitration", NoMolList, pr, TRUE)
                EXCEPT !.sites = findSites(InitP),
                       !.map = IonTypes(InitSpace)] >> : pr \in Probs }
  \cup { << [Movebase("SwapMove", NoMolList, pr, FALSE)
                EXCEPT !.sites = findSites(InitP)] >> : pr \in Probs }
  \cup { << Movebase("SwapCharge", NoMolList, pr, FALSE) >> : pr \in Probs }
  \cup { << Movebase("ParallelTempering", NoMolList, pr, TRUE) >>
         : pr \in Probs }

\* The moves a program drives itself, by calling their move(n): plain or
\* wrapped in PolarizeMove
UserConfigs ==
    { << [Movebase("AtomicTranslation",
                   [id \in {"salt"} |-> MolListData(100, a, FALSE)],
                   100, FALSE) EXCEPT !.polarize = TRUE] >> : a \in BOOLEAN }
  \cup { << [Movebase("TranslateRotate",
                   [id \in {"mol"} |-> MolListData(100, FALSE, b)],
                   100, FALSE) EXCEPT !.polarize = TRUE] >> : b \in BOOLEAN }
  \cup { << [Movebase("Isobaric", NoMolList, 100, FALSE)
                EXCEPT !.polarize = w] >> : w \in BOOLEAN }

\* The move lists a Propagator is constructed with when the sites are
\* bonded in one molecule
PolymerConfigs ==
    { << [Movebase("Reptation",
                   [id \in {"mol"} |-> MolListData(50, FALSE, FALSE)],
                   100, FALSE) EXCEPT !.dp = b] >> : b \in {0, 1} }

\* The move list a Propagator is constructed with for the conformations of
\* one chain
ConformationConfigs ==
    { << Movebase("ConformationSwap",
                  [id \in {"chain"} |-> MolListData(100, FALSE, FALSE)],
                  100, TRUE) >> }

\* The move lists a Propagator is constructed with for one chain: minlen
\* and maxlen of the input
ChainConfigs ==
    { << [Movebase(kind,
                   [id \in {"chain"} |-> MolListData(100, FALSE, FALSE)],
                   100, FALSE)
             EXCEPT !.minlen = a, !.maxlen = b, !.dp = 1] >>
      : kind \in {"CrankShaft", "Pivot"}, a \in {0, 1, 3}, b \in {1, 3} }

\* The move lists a Propagator is constructed with for the divalent salt
DivalentConfigs ==
    { << [Movebase("GrandCanonicalSalt", NoMolList, pr, TRUE)
             EXCEPT !.map = IonTypes(DivalentSpace)] >> : pr \in Probs }

\* The move lists a Propagator is constructed with for the purely molecular
\* system
ClusterConfigs ==
    { << [Movebase("ClusterTranslateNR", NoMolList, 100, TRUE)
             EXCEPT !.skipEnergyUpdate = s] >> : s \in BOOLEAN }
  \cup { << [Movebase("ClusterMove",
                      [id \in {"mac"} |-> MolListData(100, FALSE, FALSE)],
                      100, TRUE)
             EXCEPT !.threshold = t, !.dp_rot = r, !.dp = 1] >>
         : t \in Thresholds, r \in {0, 1} }

\* The move lists a Propagator is constructed with for the system of the
\* molecules "mac" and "mic", one of the two being a static molecule
MixedConfigs ==
    { << [Movebase("ClusterMove",
                   [id \in {"mac", "mic"} |-> MolListData(100, FALSE, FALSE)],
                   100, TRUE)
             EXCEPT !.threshold = 1, !.dp_rot = 0, !.dp = 1,
                    !.staticmol = {a}] >>
      : a \in {"mac", "mic"} }

\* The move lists a Propagator is constructed with for a molecule "mol"
\* that moves together with the ions of "salt" around it
SaltClusterConfigs ==
    { << [Movebase("TranslateRotateCluster",
                   [id \in {"mol"} |-> MolListData(100, FALSE, FALSE)],
                   100, FALSE)
             EXCEPT !.threshold = t, !.dp_rot = r, !.dp = d,
                    !.gmobile = 3] >>
      : t \in Thresholds, r \in {0, 1}, d \in {0, 1} }

\* Values of n a program passes to move(n)
NArgs == {1, 2}

VARIABLES
    spc,        \* the Space: p, trial, groups, atomTrack, geo, geo_trial
    mv,         \* the moves owned by the Propagator (mPtr), with their fields
    driver,     \* who calls move(): the Propagator or the program itself
    pot,        \* the Hamiltonian: the value its update(acceptance) returns
    prop,       \* the Propagator's own fields
    pc,         \* position in Propagator::move / Movebase::move
    cur,        \* index in mPtr of the move selected by Propagator::move
    n,          \* remaining iterations of the trial loop
    utot,       \* local utot of Movebase::move
    change,     \* Movebase::change of the selected move
    sw,         \* SwapMove::move: its locals i (sites left) and du
    hist,       \* observations of the run
    twin,       \* two runs of one move, compared for their trajectories
    sub         \* a computation stepped on its own: a loop, a construction

vars == <<spc, mv, driver, pot, prop, pc, cur, n, utot, change, sw, hist, twin,
         sub>>

\* The variables of a single run
runvars == <<spc, mv, driver, pot, prop, pc, cur, n, utot, change, sw, hist>>

\* No pair of runs is compared
NoTwin == [rep |-> <<>>]

\* No computation is stepped on its own
NoSub == [pc |-> "none"]

\* The committed mass centres of the groups
CommittedCm(S) == [g \in 1 .. Len(S.groups) |-> S.groups[g].cm]

\* Observations: the state before the current trial's propose, the variates
\* drawn, and the sums the claims speak about
InitHist == [p0 |-> InitP, pstart |-> InitP, geo0 |-> 2, cm0 |-> <<>>,
             narg |-> 0,
             rundraw |-> -1, ran |-> FALSE,
             mdraws |-> 0, u |-> -1, du |-> 0, acc |-> TRUE,
             trials |-> 0, accsum |-> 0, updsum |-> 0, dusum0 |-> 0,
             rets |-> <<>>, uinitEvals |-> 0, uinitAt |-> 0,
             childCalls |-> 0,
             swran |-> FALSE, swtests |-> 0, swtrials |-> 0]

Init ==
    /\ \/ spc = InitSpace /\ driver = "propagator" /\ mv \in Configs
       \/ spc = InitSpace /\ driver = "user" /\ mv \in UserConfigs
       \/ spc = PolymerSpace /\ driver = "propagator" /\ mv \in PolymerConfigs
       \/ spc = DivalentSpace /\ driver = "propagator" /\ mv \in DivalentConfigs
       \/ spc = ClusterSpace /\ driver = "propagator" /\ mv \in ClusterConfigs
       \/ spc = MixedSpace /\ driver = "propagator" /\ mv \in MixedConfigs
       \/ spc = ChainSpace /\ driver = "propagator" /\ mv \in ChainConfigs
       \/ spc = ChainSpace /\ driver = "propagator"
                           /\ mv \in ConformationConfigs
       \/ spc = InitSpace /\ driver = "propagator" /\ mv \in SaltClusterConfigs
    /\ pot \in [update : UpdateVals]
    /\ prop = [cnt |-> 0, uinit |-> 0, dusum |-> 0,
               uavg |-> [cnt |-> 0, sum |-> 0]]
    /\ pc = "idle"
    /\ cur = 1
    /\ n = 0
    /\ utot = 0
    /\ change = EmptyChange
    /\ sw = [i |-> 0, du |-> 0]
    /\ hist = [InitHist EXCEPT !.p0 = spc.p, !.pstart = spc.p]
    /\ twin = NoTwin
    /\ sub = NoSub

\* Average<double>::operator+=
AverageAdd(avg, x) == [cnt |-> avg.cnt + 1, sum |-> avg.sum + x]

\* An accumulation that keeps only the last returned energy
Propagator_accumulate_last(pr, d) ==
    [pr EXCEPT !.dusum = d,
               !.uavg = AverageAdd(pr.uavg, pr.uinit + d)]

\* Propagator::move after the selected move returned du
Propagator_accumulate(pr, d) ==
    [pr EXCEPT !.dusum = pr.dusum + d,
               !.uavg = AverageAdd(pr.uavg, pr.uinit + pr.dusum + d)]

RECURSIVE TotalCnt(_)
TotalCnt(ms) == IF ms = <<>> THEN 0 ELSE Head(ms).cnt + TotalCnt(Tail(ms))

\* Propagator::move up to the call of the selected move's move()
PropagatorMove ==
    /\ pc = "idle"
    /\ driver = "propagator"
    /\ prop.cnt < MaxCalls
    /\ TotalCnt(mv) < MaxTrials
    /\ \E i \in DOMAIN mv :
        /\ prop' = [prop EXCEPT !.cnt = @ + 1,
                        !.uinit = IF prop.uavg.cnt = 0
                                  THEN systemEnergy(spc.p) ELSE @]
        /\ cur' = i
        /\ hist' = [hist EXCEPT
                        !.uinitEvals = IF prop.uavg.cnt = 0 THEN @ + 1 ELSE @,
                        !.uinitAt = IF prop.uavg.cnt = 0 THEN hist.childCalls
                                    ELSE @,
                        !.childCalls = @ + 1, !.narg = 1]
        /\ pc' = IF mv[i].kind = "SwapMove" THEN "swapmove" ELSE "move"
    /\ n' = 1
    /\ UNCHANGED <<spc, mv, driver, pot, utot, change, sw, twin, sub>>

\* A program calls move(n) of its move
UserMove ==
    /\ pc = "idle"
    /\ driver = "user"
    /\ hist.childCalls < MaxCalls
    /\ TotalCnt(mv) < MaxTrials
    /\ \E n0 \in NArgs :
        /\ n' = n0
        /\ hist' = [hist EXCEPT !.childCalls = @ + 1, !.narg = n0]
    /\ mv' = [mv EXCEPT ![1] = PolarizeMove_move(@)]
    /\ cur' = 1
    /\ pc' = "move"
    /\ UNCHANGED <<spc, driver, pot, prop, utot, change, sw, twin, sub>>

\* move(n) returns to the program
UserReturn ==
    /\ pc = "ret"
    /\ driver = "user"
    /\ pc' = "idle"
    /\ hist' = [hist EXCEPT !.rets = Append(@, utot)]
    /\ UNCHANGED <<spc, mv, driver, pot, prop, cur, n, utot, change, sw, twin, sub>>

\* SwapMove::move up to its loop: the run-fraction test and findSites
SwapMoveEnter ==
    /\ pc = "swapmove"
    /\ \E r \in RunDraws :
        LET go == run(r, mv[cur].runfraction)
            st == findSites(spc.p)
        IN /\ mv' = IF go THEN [mv EXCEPT ![cur].sites = st] ELSE mv
           /\ sw' = [i |-> IF go THEN Len(st) ELSE 0, du |-> 0]
           /\ pc' = IF go /\ Len(st) > 0 THEN "move" ELSE "swapret"
           /\ hist' = [hist EXCEPT !.rundraw = r, !.ran = go, !.trials = 0,
                                   !.swran = go, !.swtests = 1,
                                   !.swtrials = 0]
    /\ n' = 1
    /\ UNCHANGED <<spc, driver, pot, prop, cur, utot, change, twin, sub>>

\* SwapMove::move: return of one base::move() into the loop
SwapMoveLoop ==
    /\ pc = "ret"
    /\ mv[cur].kind = "SwapMove"
    /\ sw' = [i |-> sw.i - 1, du |-> sw.du + utot]
    /\ pc' = IF sw.i - 1 > 0 THEN "move" ELSE "swapret"
    /\ n' = 1
    /\ UNCHANGED <<spc, mv, driver, pot, prop, cur, utot, change, hist, twin, sub>>

\* Movebase::move up to the trial loop: molecule selection and run-fraction
MoveEnter ==
    /\ pc = "move"
    /\ \E id \in (IF DOMAIN mv[cur].mollist = {} THEN {"none"}
                  ELSE DOMAIN mv[cur].mollist), r \in RunDraws :
        LET m0 == mv[cur]
            m1 == IF DOMAIN m0.mollist = {} THEN m0
                  ELSE LET mr == randomMolId(m0, spc, id)
                       IN [mr EXCEPT !.currentMolId = id,
                                     !.runfraction = mr.mollist[id].prob]
            n1 == IF DOMAIN m0.mollist = {} THEN n ELSE m1.mollist[id].repeat
            go == Tmove_run(m1, spc, r)
        IN /\ mv' = [mv EXCEPT ![cur] = m1]
           /\ n' = n1
           /\ pc' = IF go /\ n1 > 0 THEN "trial" ELSE "ret"
           /\ hist' = [hist EXCEPT !.rundraw = r, !.ran = go, !.trials = 0,
                                   !.accsum = 0, !.updsum = 0,
                                   !.dusum0 = m0.dusum,
                                   !.swtests = IF m0.kind = "SwapMove"
                                               THEN @ + 1 ELSE @]
    /\ utot' = 0
    /\ UNCHANGED <<spc, driver, pot, prop, cur, change, sw, twin, sub>>

\* One iteration of the loop, first half: trialMove and pot->updateChange
TrialMove ==
    /\ pc = "trial"
    /\ \E o \in trialMove(mv[cur], spc, change) :
        /\ mv' = [mv EXCEPT ![cur] = o.m]
        /\ spc' = o.S
        /\ change' = o.change
        /\ pc' = IF o.m.threw THEN "threw" ELSE "energy"
    /\ n' = n - 1
    /\ hist' = [hist EXCEPT !.p0 = spc.p, !.geo0 = spc.geo,
                            !.cm0 = CommittedCm(spc),
                            !.trials = @ + 1,
                            !.swtrials = IF mv[cur].kind = "SwapMove"
                                         THEN @ + 1 ELSE @]
    /\ UNCHANGED <<driver, pot, prop, cur, utot, sw, twin, sub>>

\* Second half: energyChange, metropolis, accept or reject, pot->update,
\* change.clear
Decide ==
    /\ pc = "energy"
    /\ \E e \in energyChange(mv[cur], spc, change), u \in Uniform :
        LET mt  == metropolis(u, e.du)
            acc == mt.ok
            upd == pot.update
            r   == IF acc THEN acceptMove(e.m, e.S) ELSE rejectMove(e.m, e.S)
            en  == AcceptedEnergy(r.m, e.du)
        IN /\ mv' = [mv EXCEPT ![cur] =
                        IF acc THEN [r.m EXCEPT !.dusum = @ + en] ELSE r.m]
           /\ spc' = r.S
           /\ utot' = utot + (IF acc THEN en ELSE 0) + upd
           /\ hist' = [hist EXCEPT !.mdraws = @ + mt.draws, !.u = u,
                          !.du = e.du, !.acc = acc,
                          !.accsum = @ + (IF ~acc THEN 0
                              ELSE IF r.m.useAlternativeReturnEnergy
                              THEN r.m.alternateReturnEnergy ELSE e.du),
                          !.updsum = @ + upd]
    /\ change' = clearChange(change)
    /\ pc' = IF n > 0 THEN "trial" ELSE "ret"
    /\ UNCHANGED <<driver, pot, prop, cur, n, sw, twin, sub>>

\* Return of the selected move into Propagator::move, and the rest of it
PropagatorReturn ==
    /\ driver = "propagator"
    /\ \/ pc = "ret" /\ mv[cur].kind # "SwapMove"
       \/ pc = "swapret"
    /\ LET d == IF pc = "swapret" THEN sw.du ELSE utot
       IN /\ prop' = Propagator_accumulate(prop, d)
          /\ hist' = [hist EXCEPT !.rets = Append(@, d)]
    /\ pc' = "idle"
    /\ UNCHANGED <<spc, mv, driver, pot, cur, n, utot, change, sw, twin, sub>>

Next ==
    \/ PropagatorMove
    \/ SwapMoveEnter
    \/ MoveEnter
    \/ TrialMove
    \/ Decide
    \/ SwapMoveLoop
    \/ PropagatorReturn
    \/ UserMove
    \/ UserReturn

Spec == Init /\ [][Next]_vars

\* ------------------------------------------------------------------------
\* Two runs of one move on the generators
\* ------------------------------------------------------------------------

\* Calls of move() in each of the two runs
MaxTwinMoves == 2

\* Period of the generators
RngPeriod == 8

\* RandomTwister: a generator is a state; a draw reads a variate off the
\* state (in hundredths, 0 < v < 100) and advances it
RandomValue(g) == ((2 * g + 1) * 100) \div (2 * RngPeriod)
RandomNext(g) == (5 * g + 3) % RngPeriod

\* The generator after k draws
RECURSIVE RandomSkip(_, _)
RandomSkip(g, k) == IF k = 0 THEN g ELSE RandomSkip(RandomNext(g), k - 1)

\* The elements of a set of integers in ascending order
RECURSIVE Ascending(_)
Ascending(s) ==
    IF s = {} THEN <<>>
    ELSE LET lo == CHOOSE x \in s : \A y \in s : x <= y
         IN <<lo>> \o Ascending(s \ {lo})

\* RandomTwister::element: the element of a range a variate selects
element(seq, v) == seq[1 + (v * Len(seq)) \div 100]

\* The displacement dp * (slump() - 0.5) with dp = 2, on the lattice
DispOf(v) == IF v < 25 THEN 2 ELSE IF v < 75 THEN 0 ELSE 1

\* The move both runs make: translation of the salt, one trial per atom,
\* run with probability 0.5
TwinMove ==
    Movebase("AtomicTranslation",
             [id \in {"salt"} |-> MolListData(50, TRUE, FALSE)], 100, FALSE)

\* A run: its move, Space and change object, the global generator (slump),
\* the generator of the moves (_slump()), the number of variates the
\* Hamiltonian takes from the global generator in each energy evaluation,
\* and the trajectory so far
Replica(g, d, h) ==
    [m |-> TwinMove, S |-> InitSpace, ch |-> EmptyChange,
     slump |-> g, mslump |-> d, hdraws |-> h,
     pc |-> "move", n |-> 0, left |-> MaxTwinMoves, du |-> 0, log |-> <<>>]

\* The position after a call of move() ended
AfterMove(left) == IF left > 1 THEN "move" ELSE "done"

\* Movebase::move up to the run-fraction test
Replica_enter(r) ==
    LET ids == <<"salt">>
        id  == element(ids, RandomValue(r.mslump))
        d1  == RandomNext(r.mslump)
        m1  == randomMolId([r.m EXCEPT !.currentMolId = id], r.S, id)
        m2  == [m1 EXCEPT !.runfraction = m1.mollist[id].prob]
        go  == run(RandomValue(d1), m2.runfraction)
    IN [r EXCEPT !.m = m2, !.mslump = RandomNext(d1),
                 !.n = m2.mollist[id].repeat,
                 !.pc = IF go THEN "trial" ELSE AfterMove(r.left),
                 !.left = IF go THEN @ ELSE @ - 1,
                 !.log = IF go THEN @
                         ELSE Append(@, [sel |-> id, ran |-> FALSE])]

\* Movebase::trialMove: the group, the particle and the displacement are
\* three draws of the global generator
Replica_trial(r) ==
    LET g0 == r.slump
        g1 == RandomNext(g0)
        g2 == RandomNext(g1)
        gr == element(Ascending(findMolecules(r.S, r.m.currentMolId)),
                      RandomValue(g0))
        ip == element(Ascending(GroupIdx(r.S.groups[gr])), RandomValue(g1))
        x1 == translate(r.S.trial[ip].x, DispOf(RandomValue(g2)), r.S.geo)
        o  == CHOOSE o \in trialMove(r.m, r.S, r.ch) :
                  /\ o.m.igroup = gr /\ o.m.iparticle = ip
                  /\ o.S.trial[ip].x = x1
    IN [r EXCEPT !.m = o.m, !.S = o.S, !.ch = o.change,
                 !.slump = RandomNext(g2), !.pc = "energy"]

\* Movebase::energyChange: the Hamiltonian takes its variates
Replica_energy(r) ==
    LET e == CHOOSE e \in energyChange(r.m, r.S, r.ch) : TRUE
    IN [r EXCEPT !.m = e.m, !.S = e.S, !.du = e.du,
                 !.slump = RandomSkip(@, r.hdraws), !.pc = "metropolis"]

\* Movebase::move from the Metropolis test to the end of the trial
Replica_metropolis(r) ==
    LET mt   == metropolis(RandomValue(r.slump), r.du)
        o    == IF mt.ok THEN acceptMove(r.m, r.S) ELSE rejectMove(r.m, r.S)
        last == r.n = 1
    IN [r EXCEPT !.m = o.m, !.S = o.S, !.ch = clearChange(r.ch),
                 !.slump = RandomSkip(@, mt.draws),
                 !.n = @ - 1,
                 !.pc = IF last THEN AfterMove(r.left) ELSE "trial",
                 !.left = IF last THEN @ - 1 ELSE @,
                 !.log = Append(@, [sel |-> r.m.currentMolId, ran |-> TRUE,
                                    ip |-> r.m.iparticle,
                                    x |-> r.S.trial[r.m.iparticle].x,
                                    acc |-> mt.ok])]

\* Two runs from the same configuration and the same generator states,
\* under Hamiltonians that may take different numbers of variates
InitRng ==
    /\ spc = InitSpace
    /\ driver = "user"
    /\ mv = << TwinMove >>
    /\ pot = [update |-> 0]
    /\ prop = [cnt |-> 0, uinit |-> 0, dusum |-> 0,
               uavg |-> [cnt |-> 0, sum |-> 0]]
    /\ pc = "idle"
    /\ cur = 1
    /\ n = 0
    /\ utot = 0
    /\ change = EmptyChange
    /\ sw = [i |-> 0, du |-> 0]
    /\ hist = InitHist
    /\ sub = NoSub
    /\ \E g \in 0 .. RngPeriod - 1, d \in 0 .. RngPeriod - 1,
          hA \in {0, 1}, hB \in {0, 1} :
          twin = [rep |-> [k \in {"A", "B"} |->
                     Replica(g, d, IF k = "A" THEN hA ELSE hB)]]

\* Run B starts when run A is done
Turn(k) == k = "A" \/ twin.rep["A"].pc = "done"

TwinEnter ==
    \E k \in {"A", "B"} :
        /\ Turn(k) /\ twin.rep[k].pc = "move"
        /\ twin' = [twin EXCEPT !.rep[k] = Replica_enter(@)]
        /\ UNCHANGED <<runvars, sub>>

TwinTrial ==
    \E k \in {"A", "B"} :
        /\ Turn(k) /\ twin.rep[k].pc = "trial"
        /\ twin' = [twin EXCEPT !.rep[k] = Replica_trial(@)]
        /\ UNCHANGED <<runvars, sub>>

TwinEnergy ==
    \E k \in {"A", "B"} :
        /\ Turn(k) /\ twin.rep[k].pc = "energy"
        /\ twin' = [twin EXCEPT !.rep[k] = Replica_energy(@)]
        /\ UNCHANGED <<runvars, sub>>

TwinMetropolis ==
    \E k \in {"A", "B"} :
        /\ Turn(k) /\ twin.rep[k].pc = "metropolis"
        /\ twin' = [twin EXCEPT !.rep[k] = Replica_metropolis(@)]
        /\ UNCHANGED <<runvars, sub>>

NextRng ==
    \/ TwinEnter
    \/ TwinTrial
    \/ TwinEnergy
    \/ TwinMetropolis

SpecRng == InitRng /\ [][NextRng]_vars

\* ------------------------------------------------------------------------
\* Computations stepped on their own
\* ------------------------------------------------------------------------

\* ------------------------------------------------------------------------
\* Two replicas in a tempering exchange
\* ------------------------------------------------------------------------

\* Variates the moves between two exchanges may take from the global
\* generator of a replica (their number depends on the configuration for
\* moves such as ClusterTranslateNR, which draws once per pair it examines)
RegularDraws == {1, 2}

\* Parameters of the Hamiltonians of the replicas
Betas == {1, 2}

\* The other replica
Other(k) == IF k = "A" THEN "B" ELSE "A"

\* A replica: its rank, Space, Hamiltonian parameter and global generator,
\* what it has posted to its partner, and what it observed
TemperReplica(rank, S, beta, g) ==
    [m |-> [Movebase("ParallelTempering", NoMolList, 100, TRUE)
               EXCEPT !.rank = rank],
     S |-> S, beta |-> beta, slump |-> g, pc |-> "regular",
     sent |-> FALSE, duSelf |-> 0, swapped |-> FALSE,
     du |-> 0, gm |-> -1, acc |-> FALSE, p0 |-> S.p, geo0 |-> S.geo]

\* usys of a replica
usys(r, vec) == r.beta * systemEnergy(vec)

\* The moves before the exchange take d variates
Temper_regular(r, d) ==
    [r EXCEPT !.slump = RandomSkip(@, d), !.pc = "trial"]

\* _trialMove up to the send: the partner is found and the particles and
\* the volume are posted to it
Temper_send(r, v) ==
    LET m1 == [r.m EXCEPT !.partner = findPartner(r.m.rank, v)]
    IN [r EXCEPT !.m = m1, !.sent = goodPartner(m1),
                 !.pc = IF goodPartner(m1) THEN "recv" ELSE "energy"]

\* _trialMove from waitrecv on, with the particles and volume of replica q
Temper_receive(r, q) ==
    LET o == ParallelTempering_receive(r.m, r.S, q.p0, q.geo0)
    IN [r EXCEPT !.m = o.m, !.S = o.S, !.pc = "energy"]

\* _energyChange up to exchangeEnergy: the own energy change is posted
Temper_energy(r) ==
    IF ~goodPartner(r.m)
    THEN [r EXCEPT !.du = Infty, !.m.alternateReturnEnergy = 0,
                   !.pc = "metropolis"]
    ELSE [r EXCEPT !.duSelf = usys(r, r.S.trial) - usys(r, r.S.p),
                   !.swapped = TRUE, !.pc = "swapf"]

\* _energyChange from the return of exchangeEnergy on, with the energy
\* change of replica q
Temper_exchanged(r, q) ==
    LET e == ParallelTempering_exchanged(r.m, r.S, r.duSelf, q.duSelf)
    IN [r EXCEPT !.m = e.m, !.S = e.S, !.du = e.du, !.pc = "metropolis"]

\* Movebase::move from the Metropolis test to the end of the trial
Temper_metropolis(r) ==
    LET mt == metropolis(RandomValue(r.slump), r.du)
        o  == IF mt.ok THEN ParallelTempering_acceptMove(r.m, r.S)
              ELSE ParallelTempering_rejectMove(r.m, r.S)
    IN [r EXCEPT !.m = o.m, !.S = o.S, !.gm = r.slump, !.acc = mt.ok,
                 !.slump = RandomSkip(@, mt.draws), !.pc = "done"]

\* The run is not under way while replicas, a loop or a construction are
\* stepped
ParkedRun ==
    /\ spc = InitSpace
    /\ driver = "user"
    /\ mv = << TwinMove >>
    /\ pot = [update |-> 0]
    /\ prop = [cnt |-> 0, uinit |-> 0, dusum |-> 0,
               uavg |-> [cnt |-> 0, sum |-> 0]]
    /\ pc = "idle"
    /\ cur = 1
    /\ n = 0
    /\ utot = 0
    /\ change = EmptyChange
    /\ sw = [i |-> 0, du |-> 0]
    /\ hist = InitHist

\* Two replicas of ranks 0 and 1 with generators seeded alike, different
\* configurations, volumes and Hamiltonians; coin is the variate of the
\* generator of the MPI controller, the same on both ranks
InitTemper ==
    /\ ParkedRun
    /\ sub = NoSub
    /\ \E g \in 0 .. RngPeriod - 1, coin \in {25, 75}, beta \in Betas,
          pB \in PartnerConfigs(InitSpace), volB \in Lens :
          twin = [coin |-> coin,
                  rep |-> [k \in {"A", "B"} |->
                     IF k = "A" THEN TemperReplica(0, InitSpace, 1, g)
                     ELSE TemperReplica(1,
                              [InitSpace EXCEPT !.p = pB, !.trial = pB,
                                                !.geo = volB,
                                                !.geo_trial = volB],
                              beta, g)]]

TemperRegular ==
    \E k \in {"A", "B"}, d \in RegularDraws :
        /\ twin.rep[k].pc = "regular"
        /\ twin' = [twin EXCEPT !.rep[k] = Temper_regular(@, d)]
        /\ UNCHANGED <<runvars, sub>>

TemperSend ==
    \E k \in {"A", "B"} :
        /\ twin.rep[k].pc = "trial"
        /\ twin' = [twin EXCEPT !.rep[k] = Temper_send(@, twin.coin)]
        /\ UNCHANGED <<runvars, sub>>

TemperReceive ==
    \E k \in {"A", "B"} :
        /\ twin.rep[k].pc = "recv" /\ twin.rep[Other(k)].sent
        /\ twin' = [twin EXCEPT !.rep[k] =
                       Temper_receive(@, twin.rep[Other(k)])]
        /\ UNCHANGED <<runvars, sub>>

TemperEnergy ==
    \E k \in {"A", "B"} :
        /\ twin.rep[k].pc = "energy"
        /\ twin' = [twin EXCEPT !.rep[k] = Temper_energy(@)]
        /\ UNCHANGED <<runvars, sub>>

TemperExchanged ==
    \E k \in {"A", "B"} :
        /\ twin.rep[k].pc = "swapf" /\ twin.rep[Other(k)].swapped
        /\ twin' = [twin EXCEPT !.rep[k] =
                       Temper_exchanged(@, twin.rep[Other(k)])]
        /\ UNCHANGED <<runvars, sub>>

TemperMetropolis ==
    \E k \in {"A", "B"} :
        /\ twin.rep[k].pc = "metropolis"
        /\ twin' = [twin EXCEPT !.rep[k] = Temper_metropolis(@)]
        /\ UNCHANGED <<runvars, sub>>

NextTemper ==
    \/ TemperRegular
    \/ TemperSend
    \/ TemperReceive
    \/ TemperEnergy
    \/ TemperExchanged
    \/ TemperMetropolis

SpecTemper == InitTemper /\ [][NextTemper]_vars

\* The run is not under way while a loop or a construction is stepped
Parked == ParkedRun /\ twin = NoTwin

\* ------------------------------------------------------------------------
\* A tempering step of all the replicas
\* ------------------------------------------------------------------------

\* Largest number of replicas
MaxProc == 4

\* The ranks of nproc replicas
Ranks(nproc) == 0 .. nproc - 1

\* The replica of a rank: neighbours differ in configuration, volume and
\* Hamiltonian
StepReplica(rank, nproc, g) ==
    LET pR == [i \in DOMAIN InitP |->
                 [InitP[i] EXCEPT !.x = IF rank % 2 = 0 THEN @ ELSE 1]]
        vR == IF rank % 2 = 0 THEN 2 ELSE 3
        r  == TemperReplica(rank,
                  [InitSpace EXCEPT !.p = pR, !.trial = pR,
                                    !.geo = vR, !.geo_trial = vR],
                  1 + (rank % 2), g)
    IN [r EXCEPT !.m.nproc = nproc, !.pc = "trial"]



\* The replicas wait in _trialMove for the particles they were sent, and
\* in exchangeEnergy for the energy; coin is the variate of the generator of
\* the MPI controller, the same on every rank
InitStep ==
    /\ Parked
    /\ \E nproc \in 1 .. MaxProc, coin \in {25, 75}, g \in {0, 1} :
          sub = [pc |-> "step", nproc |-> nproc, coin |-> coin,
                 rep |-> [k \in Ranks(nproc) |-> StepReplica(k, nproc, g)]]

\* The replica the replica k selected
PartnerOf(k) == sub.rep[k].m.partner

\* The replica k selected a replica that selected it
Paired(k) ==
    /\ PartnerOf(k) \in DOMAIN sub.rep
    /\ sub.rep[PartnerOf(k)].m.partner = k

StepSend ==
    /\ sub.pc = "step"
    /\ \E k \in DOMAIN sub.rep :
        /\ sub.rep[k].pc = "trial"
        /\ sub' = [sub EXCEPT !.rep[k] = Temper_send(@, sub.coin)]
    /\ UNCHANGED <<runvars, twin>>

StepReceive ==
    /\ sub.pc = "step"
    /\ \E k \in DOMAIN sub.rep :
        /\ sub.rep[k].pc = "recv"
        /\ Paired(k) /\ sub.rep[PartnerOf(k)].sent
        /\ sub' = [sub EXCEPT !.rep[k] =
                      Temper_receive(@, sub.rep[PartnerOf(k)])]
    /\ UNCHANGED <<runvars, twin>>

StepEnergy ==
    /\ sub.pc = "step"
    /\ \E k \in DOMAIN sub.rep :
        /\ sub.rep[k].pc = "energy"
        /\ sub' = [sub EXCEPT !.rep[k] = Temper_energy(@)]
    /\ UNCHANGED <<runvars, twin>>

StepExchanged ==
    /\ sub.pc = "step"
    /\ \E k \in DOMAIN sub.rep :
        /\ sub.rep[k].pc = "swapf"
        /\ Paired(k) /\ sub.rep[PartnerOf(k)].swapped
        /\ sub' = [sub EXCEPT !.rep[k] =
                      Temper_exchanged(@, sub.rep[PartnerOf(k)])]
    /\ UNCHANGED <<runvars, twin>>

StepMetropolis ==
    /\ sub.pc = "step"
    /\ \E k \in DOMAIN sub.rep :
        /\ sub.rep[k].pc = "metropolis"
        /\ sub' = [sub EXCEPT !.rep[k] = Temper_metropolis(@)]
    /\ UNCHANGED <<runvars, twin>>

NextStep ==
    \/ StepSend
    \/ StepReceive
    \/ StepEnergy
    \/ StepExchanged
    \/ StepMetropolis

\* Every replica is a process of its own and goes on when it can
SpecStep ==
    /\ InitStep /\ [][NextStep]_vars
    /\ WF_vars(StepSend) /\ WF_vars(StepReceive) /\ WF_vars(StepEnergy)
    /\ WF_vars(StepExchanged) /\ WF_vars(StepMetropolis)

\* ------------------------------------------------------------------------
\* PolarizeMove::induceDipoles, pass by pass
\* ------------------------------------------------------------------------

\* Largest max_iterations of the input
MaxIterBound == 3

\* Values of max_iterations and of pol_threshold of the input
MaxIterations == 0 .. MaxIterBound
PolThresholds == {0, 1}

\* Values mu_err_norm.maxCoeff() can take after a pass (the field is the
\* Hamiltonian's)
DipoleErrs == {0, 1, 2}

\* A pass that tests the convergence before the iteration bound
induceDipoles_pass_testFirst(s, e) ==
    [s EXCEPT !.cnt = @ + 1, !.errs = Append(@, e),
              !.pc = IF e <= s.threshold THEN "returned"
                     ELSE IF s.cnt + 1 > s.max_iter THEN "thrown"
                     ELSE "loop"]

\* One pass of the do-while loop with the largest dipole change e: cnt++,
\* the dipoles are updated, the bound is tested (throw), then the loop
\* condition
induceDipoles_pass(s, e) ==
    [s EXCEPT !.cnt = @ + 1, !.errs = Append(@, e),
              !.pc = IF s.cnt + 1 > s.max_iter THEN "thrown"
                     ELSE IF e > s.threshold THEN "loop"
                     ELSE "returned"]

\* A call of induceDipoles by a PolarizeMove constructed with max_iter and
\* threshold
InitInduce ==
    /\ Parked
    /\ \E mi \in MaxIterations, th \in PolThresholds :
          sub = [pc |-> "loop", max_iter |-> mi, threshold |-> th,
                 cnt |-> 0, errs |-> << >>]

InducePass ==
    /\ sub.pc = "loop"
    /\ \E e \in DipoleErrs : sub' = induceDipoles_pass(sub, e)
    /\ UNCHANGED <<runvars, twin>>

NextInduce == InducePass

\* The loop runs on until it returns or throws
SpecInduce == InitInduce /\ [][NextInduce]_vars /\ WF_vars(InducePass)

\* ------------------------------------------------------------------------
\* Propagator::Propagator, key by key
\* ------------------------------------------------------------------------

\* Keys of the moves section of the input
MoveKeys ==
    {"_jsonfile", "atomtranslate", "moltransrotcluster", "random", "titrate"}

\* The molecule names the configuration of a move may hold; "ghost" is not
\* in the molecule list of the Space
NameSets == {{"salt"}, {"ghost"}, {"salt", "ghost"}, {"mol", "salt"}}

\* States of the global generator at construction, and states a "random"
\* object may configure
GlobalStates == {1, 2}
ConfiguredStates == {2, 5}

\* The orders in which the keys K may be iterated
Orders(K) ==
    {s \in [1 .. Cardinality(K) -> K] :
        \A i, j \in DOMAIN s : i # j => s[i] # s[j]}

\* Movebase::fillMolList: the molecules of the configuration that the
\* molecule list of the Space defines are added, the others are passed over
fillMolList(names) ==
    [id \in names \cap MolIds |-> MolListData(100, FALSE, FALSE)]

\* The constructor of the move of a key, with the names of its
\* configuration: threw tells whether it ended in an exception
MoveCtor(key, names) ==
    LET ml == fillMolList(names)
    IN IF key = "moltransrotcluster"
       THEN [threw |-> Cardinality(DOMAIN ml) # 1,
             m |-> [Movebase("TranslateRotateCluster", ml, 100, FALSE)
                       EXCEPT !.gmobile = 3]]
       ELSE IF key = "titrate"
       THEN [threw |-> FALSE,
             m |-> [Movebase("SwapMove", NoMolList, 100, FALSE)
                       EXCEPT !.sites = findSites(InitP)]]
       ELSE [threw |-> FALSE,
             m |-> Movebase("AtomicTranslation", ml, 100, FALSE)]

\* One pass of the loop over the keys of the moves section: the generator
\* of the moves is seeded from the global one, then the key is acted upon
Propagator_key(s) ==
    LET key  == Head(s.keys)
        val  == s.section[key]
        seed == IF key = "random" /\ val.object THEN val.state ELSE s.slump
        c    == MoveCtor(key, val.names)
        isMove == key \in {"atomtranslate", "moltransrotcluster", "titrate"}
    IN IF isMove /\ c.threw
       THEN [s EXCEPT !.mslump = seed, !.lastKey = key, !.pc = "thrown"]
       ELSE [s EXCEPT !.mslump = seed, !.lastKey = key, !.keys = Tail(@),
                      !.mPtr = IF isMove THEN Append(@, c.m) ELSE @]

\* The end of the constructor: no move defined is an error
Propagator_end(s) ==
    [s EXCEPT !.pc = IF s.mPtr = << >> THEN "thrown" ELSE "done"]

\* The values of a moves section with the keys K
Sections(K) ==
    { [k \in K |-> [object |-> o, state |-> r,
                    names |-> IF k \in DOMAIN N THEN N[k] ELSE {}]] :
        o \in BOOLEAN, r \in ConfiguredStates,
        N \in [K \cap {"atomtranslate", "moltransrotcluster"} -> NameSets] }

\* A Propagator is constructed on a moves section; the generator of the
\* moves is static and starts in its default state
InitCtor ==
    /\ Parked
    /\ \E K \in (SUBSET MoveKeys) \ {{}}, g \in GlobalStates :
       \E section \in Sections(K), order \in Orders(K) :
          sub = [pc |-> "loop", section |-> section, keys |-> order,
                 lastKey |-> "none", slump |-> g, mslump |-> 0,
                 mPtr |-> << >>]

CtorKey ==
    /\ sub.pc = "loop" /\ sub.keys # << >>
    /\ sub' = Propagator_key(sub)
    /\ UNCHANGED <<runvars, twin>>

CtorEnd ==
    /\ sub.pc = "loop" /\ sub.keys = << >>
    /\ sub' = Propagator_end(sub)
    /\ UNCHANGED <<runvars, twin>>

NextCtor ==
    \/ CtorKey
    \/ CtorEnd

SpecCtor == InitCtor /\ [][NextCtor]_vars

\* ------------------------------------------------------------------------
\* The ideal-gas and chemical-potential term of grand-canonical trials
\* ------------------------------------------------------------------------

\* Largest number of particles of a species, largest volume
MaxCount == 4
MaxVolume == 3

\* The energy  log(num / den) + mu : a logarithm is kept as the fraction it
\* is taken of, so that sums of logarithms are exact
LogTerm(num, den, mu) == [num |-> num, den |-> den, mu |-> mu]

TermSum(a, b) == [num |-> a.num * b.num, den |-> a.den * b.den,
                  mu |-> a.mu + b.mu]

TermNeg(a) == [num |-> a.den, den |-> a.num, mu |-> 0 - a.mu]

TermEq(a, b) == a.num * b.den = b.num * a.den /\ a.mu = b.mu

\* The sum of k terms t
RECURSIVE TermTimes(_, _)
TermTimes(t, k) ==
    IF k <= 0 THEN LogTerm(1, 1, 0) ELSE TermSum(t, TermTimes(t, k - 1))

\* log(idfactor) after 'for n < N: idfactor *= (first + n) / V'
RECURSIVE idfactor(_, _, _)
idfactor(first, N, V) ==
    IF N <= 0 THEN LogTerm(1, 1, 0)
    ELSE TermSum(LogTerm(first + N - 1, V, 0), idfactor(first, N - 1, V))

\* GrandCanonicalSalt::_energyChange, unew without the interactions: size
\* are the numbers of ions of the types ida and idb in atomTrack, N the
\* numbers of ions added or deleted, chempot the chemical potentials
GrandCanonicalSalt_unew(size, N, chempot, V, insert) ==
    IF insert
    THEN TermSum(TermSum(idfactor(size[1] + 1, N[1], V),
                         idfactor(size[2] + 1, N[2], V)),
                 LogTerm(1, 1, 0 - N[1] * chempot[1] - N[2] * chempot[2]))
    ELSE TermSum(TermNeg(TermSum(idfactor(size[1] - N[1] + 1, N[1], V),
                                 idfactor(size[2] - N[2] + 1, N[2], V))),
                 LogTerm(1, 1, N[1] * chempot[1] + N[2] * chempot[2]))

\* GreenGC::externalEnergy: size are the numbers of molecules of the two
\* types in the tracker, cnt the numbers of them in the combination
GreenGC_externalEnergy(size, cnt, chemPot, V, insertBool) ==
    LET bit == IF insertBool THEN 1 ELSE 0
        u == TermSum(TermTimes(LogTerm(size[1] + bit, V, 0 - chemPot[1]),
                               cnt[1]),
                     TermTimes(LogTerm(size[2] + bit, V, 0 - chemPot[2]),
                               cnt[2]))
    IN IF insertBool THEN u ELSE TermNeg(u)

\* A combination of cnt[1] and cnt[2] particles of two species is inserted
\* and deleted again and again, every trial accepted; u is the term of the
\* last trial, uprev that of the trial before it
InitGC ==
    /\ Parked
    /\ \E kind \in {"GrandCanonicalSalt", "GreenGC"}, V \in 1 .. MaxVolume,
          cnt \in (1 .. 2) \X (1 .. 2), size \in (0 .. 2) \X (0 .. 2) :
          sub = [pc |-> "gc", kind |-> kind, V |-> V, cnt |-> cnt,
                 chemPot |-> <<1, 2>>, size |-> size,
                 op |-> "none", u |-> LogTerm(1, 1, 0),
                 opprev |-> "none", uprev |-> LogTerm(1, 1, 0)]

\* The term of a trial of the move sub.kind
GCTerm(insert) ==
    IF sub.kind = "GreenGC"
    THEN GreenGC_externalEnergy(sub.size, sub.cnt, sub.chemPot, sub.V, insert)
    ELSE GrandCanonicalSalt_unew(sub.size, sub.cnt, sub.chemPot, sub.V,
                                 insert)

\* The species can take, or give, the particles of the combination
GCCan(insert) ==
    \A s \in 1 .. 2 :
        IF insert THEN sub.size[s] + sub.cnt[s] <= MaxCount
        ELSE sub.size[s] >= sub.cnt[s]

\* The trial is evaluated and accepted
GCAfter(insert) ==
    [sub EXCEPT !.op = IF insert THEN "insert" ELSE "delete",
                !.u = GCTerm(insert),
                !.opprev = sub.op, !.uprev = sub.u,
                !.size = [s \in 1 .. 2 |->
                             IF insert THEN sub.size[s] + sub.cnt[s]
                             ELSE sub.size[s] - sub.cnt[s]]]

SaltInsert ==
    /\ sub.pc = "gc" /\ sub.kind = "GrandCanonicalSalt" /\ GCCan(TRUE)
    /\ sub' = GCAfter(TRUE)
    /\ UNCHANGED <<spc, driver, mv, pot, prop, pc, cur, n, utot, change,
                   sw, hist, twin>>

SaltDelete ==
    /\ sub.pc = "gc" /\ sub.kind = "GrandCanonicalSalt" /\ GCCan(FALSE)
    /\ sub' = GCAfter(FALSE)
    /\ UNCHANGED <<spc, driver, mv, pot, prop, pc, cur, n, utot, change,
                   sw, hist, twin>>

GreenInsert ==
    /\ sub.pc = "gc" /\ sub.kind = "GreenGC" /\ GCCan(TRUE)
    /\ sub' = GCAfter(TRUE)
    /\ UNCHANGED <<spc, driver, mv, pot, prop, pc, cur, n, utot, change,
                   sw, hist, twin>>

GreenDelete ==
    /\ sub.pc = "gc" /\ sub.kind = "GreenGC" /\ GCCan(FALSE)
    /\ sub' = GCAfter(FALSE)
    /\ UNCHANGED <<spc, driver, mv, pot, prop, pc, cur, n, utot, change,
                   sw, hist, twin>>

NextGC ==
    \/ SaltInsert
    \/ SaltDelete
    \/ GreenInsert
    \/ GreenDelete

SpecGC == InitGC /\ [][NextGC]_vars

\* ------------------------------------------------------------------------
\* Properties
\* ------------------------------------------------------------------------

\* The move that is selected
m_cur == mv[cur]

\* Movebase::move, or SwapMove::move, is at its return statement, or has
\* returned
AtReturn == pc \in {"ret", "swapret", "idle"}

\* C1: at every return from Movebase::move(n), for every concrete move
\* (wrapped in PolarizeMove or not), the committed and the trial particle
\* vectors have the same length and are elementwise equal.
C1_TrialInSync ==
    AtReturn =>
        /\ Len(spc.p) = Len(spc.trial)
        /\ \A i \in DOMAIN spc.p : spc.p[i] = spc.trial[i]

\* A wrapped move returns after two trials, the last one rejected with
\* the dipoles of the trial vector induced anew
C1_Witness ==
    /\ pc = "ret"
    /\ m_cur.polarize /\ m_cur.updateDip
    /\ hist.trials = 2 /\ ~hist.acc /\ m_cur.cnt_accepted = 1

\* C2: a rejected trial leaves the committed particle vector, the particle
\* count and the committed box geometry as they were before that trial's
\* propose.
C2_RejectRestores ==
    [][(pc = "energy" /\ pc' # "energy" /\ ~hist'.acc) =>
          /\ spc'.p = hist.p0
          /\ Len(spc'.p) = Len(hist.p0)
          /\ spc'.geo = hist.geo0]_vars

\* A tempering exchange with a partner of another volume was rejected
C2_Witness ==
    /\ pc = "ret" /\ hist.trials = 1 /\ ~hist.acc
    /\ m_cur.kind = "ParallelTempering" /\ goodPartner(m_cur)
    /\ m_cur.recvVolume # m_cur.sendVolume
    /\ spc.geo = m_cur.sendVolume

\* C3: the Change object is empty when the propose of each inner trial
\* starts, and it is cleared after every inner trial, accepted or rejected.
C3_ChangeEmpty ==
    pc \in {"trial", "ret", "swapret", "idle", "move", "swapmove"} =>
        change = EmptyChange

\* A second trial is about to start after a volume trial that had
\* registered every group in the change object
C3_Witness ==
    /\ pc = "trial" /\ hist.trials = 1
    /\ m_cur.kind = "Isobaric"
    /\ change = EmptyChange

\* C4: every inner trial takes exactly one uniform variate for the
\* Metropolis test, whatever the energy change; the trial is rejected
\* exactly when the variate exceeds exp(-dU), so a trial with dU <= 0 is
\* always accepted.
C4_Metropolis ==
    [][(pc = "energy" /\ pc' # "energy") =>
          /\ hist'.mdraws = hist.mdraws + 1
          /\ (m_cur'.cnt_accepted = m_cur.cnt_accepted)
                <=> (hist'.u > ExpNeg(hist'.du))
          /\ (m_cur'.cnt_accepted = m_cur.cnt_accepted + 1)
                <=> ~(hist'.u > ExpNeg(hist'.du))
          /\ (hist'.du <= 0 => m_cur'.cnt_accepted = m_cur.cnt_accepted + 1)
       ]_vars

\* A downhill trial was accepted on a variate of 0.5
C4_Witness ==
    /\ pc \in {"trial", "ret"} /\ hist.trials >= 1
    /\ hist.du < 0 /\ hist.u = 50 /\ hist.acc

\* C5: when the run-fraction variate exceeds the run fraction, move(n)
\* returns 0, makes no trial (no propose, energy, accept or reject), does
\* not increment the attempt or the accepted counter, and leaves both
\* particle vectors unchanged.
C5_RunFractionSkips ==
    [][(pc \in {"move", "swapmove"} /\ hist'.rundraw > m_cur'.runfraction) =>
          /\ pc' \in {"ret", "swapret"}
          /\ pc' = "ret" => utot' = 0
          /\ pc' = "swapret" => sw'.du = 0
          /\ hist'.trials = 0
          /\ m_cur'.cnt = m_cur.cnt
          /\ m_cur'.cnt_accepted = m_cur.cnt_accepted
          /\ spc'.p = spc.p /\ spc'.trial = spc.trial
       ]_vars

\* A move returns 0 without a trial on a variate above its run fraction
C5_Witness ==
    /\ pc = "ret" /\ hist.rundraw > m_cur.runfraction
    /\ hist.trials = 0 /\ utot = 0

\* The repeat number the molecule list prescribes for the selected entry
C6_Expected ==
    LET d == m_cur.mollist[m_cur.currentMolId]
        G == findMolecules(spc, m_cur.currentMolId)
    IN (IF d.perAtom THEN GroupSize(spc.groups[CHOOSE g \in G : TRUE]) ELSE 1)
     * (IF d.perMol THEN Cardinality(G) ELSE 1)

C7_ReturnIsAcceptedSum ==
    pc = "ret" =>
        /\ utot = hist.accsum
        /\ m_cur.dusum = hist.dusum0 + hist.accsum

\* C7, amended: the value move(n) returns is the sum over the accepted
\* trials of dU (or of the alternative return energy) plus, for every
\* trial made, accepted or rejected, the value the Hamiltonian's
\* update(acceptance) returned; dusum grows by the accepted energies only.
C7_ReturnWithUpdate ==
    pc = "ret" =>
        /\ utot = hist.accsum + hist.updsum
        /\ m_cur.dusum = hist.dusum0 + hist.accsum

\* Two trials, one accepted with a non-zero energy and the last rejected,
\* under a Hamiltonian whose update returns a non-zero value
C7_Witness ==
    /\ pc = "ret" /\ hist.trials = 2
    /\ hist.accsum # 0 /\ ~hist.acc /\ pot.update # 0

\* Sum of the first j elements
RECURSIVE PrefixSum(_, _)
PrefixSum(s, j) == IF j = 0 THEN 0 ELSE s[j] + PrefixSum(s, j - 1)

\* Sum over j of (u0 + the first j elements)
RECURSIVE SampleSum(_, _, _)
SampleSum(u0, s, j) ==
    IF j = 0 THEN 0 ELSE u0 + PrefixSum(s, j) + SampleSum(u0, s, j - 1)

RECURSIVE TotalCharge(_)
TotalCharge(vec) ==
    IF vec = <<>> THEN 0 ELSE Head(vec).q + TotalCharge(Tail(vec))

\* The moves that change neither the identity nor the number of particles
ChargeNeutralKinds ==
    {"AtomicTranslation", "TranslateRotate", "Isobaric", "Isochoric",
     "SwapCharge", "Reptation", "TranslateRotateCluster", "ClusterMove",
     "ClusterTranslateNR", "CrankShaft", "Pivot", "ConformationSwap"}

\* C11: the total charge of the committed vector is unchanged by any
\* sequence of trials of a move that changes neither particle identity
\* nor particle count.
C11_ChargeConserved ==
    m_cur.kind \in ChargeNeutralKinds =>
        /\ TotalCharge(spc.p) = TotalCharge(hist.pstart)
        /\ Len(spc.p) = Len(hist.pstart)

\* SwapCharge has exchanged the charges of the two ions in an accepted
\* trial
C11_Witness ==
    /\ m_cur.kind = "SwapCharge" /\ pc = "ret" /\ hist.acc
    /\ hist.trials >= 1 /\ m_cur.ip # m_cur.jp
    /\ spc.p[m_cur.ip].q # hist.p0[m_cur.ip].q

\* The particles a salt trial proposes to insert or to delete
C12_Proposed ==
    IF m_cur.trial_insert # <<>> THEN m_cur.trial_insert
    ELSE [k \in DOMAIN m_cur.trial_delete |-> spc.p[m_cur.trial_delete[k]]]

\* C12: a GrandCanonicalSalt trial that proposes anything inserts, or
\* deletes, exactly |z_b| particles of the cation type a and |z_a|
\* particles of the anion type b, a set of zero net charge, and a salt move
\* never changes the total charge of the system.
C12_SaltStoichiometry ==
    m_cur.kind = "GrandCanonicalSalt" =>
        /\ TotalCharge(spc.p) = TotalCharge(hist.pstart)
        /\ (pc = "energy" /\ C12_Proposed # <<>>) =>
              LET a == m_cur.ida
                  b == m_cur.idb
                  s == C12_Proposed
                  absq(id) == IF AtomCharge[id] < 0 THEN -AtomCharge[id]
                              ELSE AtomCharge[id]
              IN /\ AtomCharge[a] > 0 /\ AtomCharge[b] < 0
                 /\ Cardinality({k \in DOMAIN s : s[k].id = a}) = absq(b)
                 /\ Cardinality({k \in DOMAIN s : s[k].id = b}) = absq(a)
                 /\ Len(s) = absq(a) + absq(b)
                 /\ TotalCharge(s) = 0
                 /\ m_cur.trial_insert = <<>> \/ m_cur.trial_delete = <<>>

\* One divalent cation and two anions were inserted in an accepted trial
C12_Witness ==
    /\ m_cur.kind = "GrandCanonicalSalt" /\ pc = "ret" /\ hist.acc
    /\ m_cur.ida = "Ca" /\ Len(m_cur.trial_insert) = 3
    /\ Len(spc.p) = Len(hist.pstart) + 3

\* The selected move is a salt move whose trial proposed nothing
C13_NoOp(m) ==
    /\ m.kind = "GrandCanonicalSalt"
    /\ m.trial_insert = <<>> /\ m.trial_delete = <<>>

\* The propose step of a salt trial that proposes nothing: the tracker
\* holds too few ions of the pair, the attempt is counted, no vector changes
C13_Propose ==
    (pc = "trial" /\ pc' = "energy" /\ C13_NoOp(m_cur')) =>
        /\ \/ Len(spc.atomTrack[m_cur'.ida]) < IonCount(m_cur'.idb)
           \/ Len(spc.atomTrack[m_cur'.idb]) < IonCount(m_cur'.ida)
        /\ m_cur'.cnt = m_cur.cnt + 1
        /\ spc'.p = spc.p /\ spc'.trial = spc.trial

\* The decision of such a trial: not a rejection, no particle removed, no
\* energy change
C13_Decision ==
    (pc = "energy" /\ pc' # "energy" /\ C13_NoOp(m_cur)) =>
        /\ hist'.acc /\ m_cur'.cnt_accepted = m_cur.cnt_accepted + 1
        /\ spc'.p = spc.p /\ spc'.trial = spc.trial
        /\ hist'.du = 0 /\ m_cur'.alternateReturnEnergy = 0
        /\ m_cur'.dusum = m_cur.dusum

\* C13 as stated: a salt deletion trial with too few ions in the tracker
\* is a silent no-op: it is counted as an attempt, not as a rejection,
\* removes no particle from either vector, and adds zero to the returned
\* energy change.
C13_SilentNoOp ==
    [][ /\ C13_Propose
        /\ C13_Decision
        /\ (pc = "energy" /\ pc' # "energy" /\ C13_NoOp(m_cur)) =>
               utot' = utot ]_vars

\* C13, amended: such a trial is counted as an attempt, not as a
\* rejection, removes no particle from either vector, has dU = 0 and adds
\* nothing to dusum; the returned value grows by what the Hamiltonian's
\* update(acceptance) returns, and by nothing else.
C13_SilentNoOpWithUpdate ==
    [][ /\ C13_Propose
        /\ C13_Decision
        /\ (pc = "energy" /\ pc' # "energy" /\ C13_NoOp(m_cur)) =>
               utot' = utot + pot.update ]_vars

\* A deletion of the divalent salt was tried with one anion in the
\* system, under a Hamiltonian whose update returns a non-zero value
C13_Witness ==
    /\ pc = "ret" /\ C13_NoOp(m_cur) /\ m_cur.ida = "Ca"
    /\ hist.trials = 1 /\ m_cur.cnt = 1 /\ m_cur.cnt_accepted = 1
    /\ Len(spc.atomTrack["Cl"]) = 1 /\ pot.update # 0

\* The decision of a swap-and-ion trial of the titration move
C14_Titrated ==
    /\ pc = "energy" /\ pc' # "energy"
    /\ m_cur.kind = "GrandCanonicalTitration" /\ ~m_cur.gcyes

\* The ion a swap-and-ion trial deletes or inserts
C14_Ion ==
    IF m_cur.trial_delete # <<>> THEN spc.p[m_cur.trial_delete[1]]
    ELSE m_cur.trial_insert[1]

\* C14: an accepted swap-and-ion trial of GrandCanonicalTitration leaves
\* the total charge unchanged: a protonation comes with the deletion of one
\* monovalent cation or the insertion of one monovalent anion, a
\* deprotonation with the insertion of one cation or the deletion of one
\* anion, and the swap of the site and the change of the ion are committed
\* together or not at all.
C14_TitrationNeutral ==
    [][C14_Titrated =>
        LET i   == m_cur.isite
            del == m_cur.trial_delete # <<>>
            ins == m_cur.trial_insert # <<>>
        IN /\ del # ins
           /\ Len(m_cur.trial_delete) + Len(m_cur.trial_insert) = 1
           /\ m_cur.protonation <=> spc.trial[i].q = spc.p[i].q + 1
           /\ ~m_cur.protonation <=> spc.trial[i].q = spc.p[i].q - 1
           /\ m_cur.protonation =>
                 \/ del /\ C14_Ion.q = 1
                 \/ ins /\ C14_Ion.q = -1
           /\ ~m_cur.protonation =>
                 \/ ins /\ C14_Ion.q = 1
                 \/ del /\ C14_Ion.q = -1
           /\ hist'.acc =>
                 /\ TotalCharge(spc'.p) = TotalCharge(spc.p)
                 /\ spc'.p[i] = spc.trial[i] /\ spc'.p[i].id # spc.p[i].id
                 /\ Len(spc'.p) = Len(spc.p) + (IF ins THEN 1 ELSE -1)
           /\ ~hist'.acc => spc'.p = spc.p
      ]_vars

\* A protonation with the deletion of the cation was accepted
C14_Witness ==
    /\ pc = "ret" /\ m_cur.kind = "GrandCanonicalTitration" /\ ~m_cur.gcyes
    /\ hist.acc /\ hist.trials = 1 /\ m_cur.protonation
    /\ m_cur.trial_delete # <<>> /\ Len(spc.p) = Len(hist.pstart) - 1
    /\ TotalCharge(spc.p) = TotalCharge(hist.pstart)

\* C10: after every accepted and every rejected trial of SwapMove,
\* GrandCanonicalSalt and GrandCanonicalTitration the atom tracker lists,
\* for each atom id, exactly the indices i with p[i].id = id, each once.
C10_TrackerConsistent ==
    (/\ pc \in {"trial", "ret", "swapret", "idle"}
     /\ m_cur.kind \in {"SwapMove", "GrandCanonicalSalt",
                        "GrandCanonicalTitration"}) =>
        \A a \in AtomIds :
            /\ Range(spc.atomTrack[a]) = {i \in DOMAIN spc.p : spc.p[i].id = a}
            /\ Cardinality(Range(spc.atomTrack[a])) = Len(spc.atomTrack[a])

\* Both runs are done
TwinDone == twin.rep["A"].pc = "done" /\ twin.rep["B"].pc = "done"

\* C8: two runs that start from the same configuration and the same state
\* of the generator of the moves make the same sequence of move
\* selections, proposals and accept/reject decisions, even when their
\* Hamiltonians take different numbers of variates from the global
\* generator between trials.
C8_TrajectoryFromMoveRng ==
    TwinDone => twin.rep["A"].log = twin.rep["B"].log

\* C15: a trial whose energy change is +infinity is rejected whatever the
\* variate of the Metropolis test, and it leaves the committed particles,
\* mass centres and geometry, and the acceptance counter, as they were
\* before the trial.
C15_InfiniteRejected ==
    [][(pc = "energy" /\ pc' # "energy" /\ hist'.du >= Infty) =>
          /\ ~hist'.acc
          /\ spc'.p = hist.p0
          /\ CommittedCm(spc') = hist.cm0
          /\ spc'.geo = hist.geo0
          /\ spc'.trial = spc'.p
          /\ mv'[cur].cnt_accepted = mv[cur].cnt_accepted]_vars

\* A trial of infinite energy change met the smallest variate and was
\* rejected
C15_Witness ==
    /\ pc = "ret" /\ hist.trials = 1
    /\ hist.du >= Infty /\ hist.u = 1 /\ ~hist.acc
    /\ m_cur.cnt_accepted = 0 /\ spc.p = hist.p0

C17_Committed ==
    \E d \in Disp : \A g \in DOMAIN spc.groups :
      \A i \in GroupIdx(spc.groups[g]) :
        spc.p[i].x = IF g \in Range(m_cur.moved)
                     THEN translate(hist.p0[i].x, d, spc.geo)
                     ELSE hist.p0[i].x

\* The pair energy of the groups after the trial minus before it, or 0
\* when skipEnergyUpdate is set
C17_PairChange ==
    IF m_cur.skipEnergyUpdate THEN 0
    ELSE ClusterTranslateNR_pairSum(spc)
         - ClusterTranslateNR_pairSum([spc EXCEPT !.p = hist.p0])

\* C17 (as stated): every executed trial of ClusterTranslateNR is counted
\* as accepted, the translation of every recruited group is committed, and
\* move() returns the total pair energy after minus before, or 0 when
\* skipEnergyUpdate is set.
C17_NeverRejected ==
    (pc = "ret" /\ m_cur.kind = "ClusterTranslateNR" /\ hist.trials = 1) =>
        /\ m_cur.cnt_accepted = m_cur.cnt
        /\ spc.p = spc.trial
        /\ C17_Committed
        /\ utot = C17_PairChange

\* C17 (amended): as above, and move() returns that pair energy change plus
\* what the Hamiltonian's update(acceptance) returned.
C17_NeverRejectedWithUpdate ==
    (pc = "ret" /\ m_cur.kind = "ClusterTranslateNR" /\ hist.trials = 1) =>
        /\ m_cur.cnt_accepted = m_cur.cnt
        /\ hist.acc
        /\ spc.p = spc.trial
        /\ C17_Committed
        /\ utot = C17_PairChange + hist.updsum

\* A trial recruited the second molecule on a rising pair energy and
\* committed both translations
C17_Witness ==
    /\ pc = "ret" /\ m_cur.kind = "ClusterTranslateNR" /\ hist.trials = 1
    /\ ~m_cur.skipEnergyUpdate
    /\ Len(m_cur.moved) = 2 /\ spc.p # hist.p0
    /\ m_cur.cnt_accepted = 1 /\ pot.update # 0

\* The particles of the cluster of the current ClusterMove trial are the
\* committed ones displaced by d
ClusterTranslatedBy(d) ==
    \A i \in ClusterParticles(spc, m_cur.cindex) :
        spc.trial[i] = [spc.p[i] EXCEPT !.x = translate(@, d, spc.geo)]

\* The cluster of the current ClusterMove trial was too big when it was
\* built (trial was a copy of p then)
ClusterWasTooBig ==
    ClusterMove_tooBig([spc EXCEPT !.trial = spc.p], m_cur.cindex)

\* C18: in ClusterMove, when the extent of the cluster (largest distance
\* from the cluster centre plus largest distance within a molecule) exceeds
\* half the box side, no cluster member is rotated and the whole cluster is
\* translated instead.
C18_TooBigTranslates ==
    (pc = "energy" /\ m_cur.kind = "ClusterMove" /\ ClusterWasTooBig) =>
        \E d \in Disp \ {0} : ClusterTranslatedBy(d)

\* C18, the part the code keeps: a cluster that is too big is never rotated
\* (its trial particles are the committed ones, or these translated)
C18_TooBigNotRotated ==
    (pc = "energy" /\ m_cur.kind = "ClusterMove" /\ ClusterWasTooBig) =>
        \E d \in Disp : ClusterTranslatedBy(d)

\* A too big cluster of two molecules was proposed with dp_rot > 0: nothing
\* moved
C18_Witness ==
    /\ pc = "energy" /\ m_cur.kind = "ClusterMove" /\ m_cur.dp_rot > 0
    /\ ClusterWasTooBig /\ Len(m_cur.cindex) = 2
    /\ spc.trial = spc.p

\* A cluster of one molecule was rotated
C18_Rotated ==
    /\ pc = "energy" /\ m_cur.kind = "ClusterMove" /\ m_cur.dp_rot > 0
    /\ ~ClusterWasTooBig
    /\ \A d \in Disp : ~ClusterTranslatedBy(d)

\* Particles i and j of vec overlap: their distance is smaller than the sum
\* of their radii
Overlap(vec, i, j) ==
    i # j /\ 2 * dist(vec[i], vec[j]) < AtomRadius[vec[i].id] + AtomRadius[vec[j].id]

\* Some particle of group k overlaps a particle of group g
GroupsOverlap(S, g, k) ==
    \E i \in GroupIdx(S.groups[k]), j \in GroupIdx(S.groups[g]) :
        Overlap(S.p, i, j)

\* The groups joined to those of X by a chain of at most steps overlaps
RECURSIVE OverlapClosure(_, _, _)
OverlapClosure(S, X, steps) ==
    IF steps = 0 THEN X
    ELSE OverlapClosure(S,
            X \cup {k \in DOMAIN S.groups : \E g \in X : GroupsOverlap(S, g, k)},
            steps - 1)

\* A cluster move with threshold 0 has proposed
ClusterTrialAtZero ==
    /\ pc = "energy"
    /\ m_cur.kind \in {"TranslateRotateCluster", "ClusterMove"}
    /\ m_cur.threshold = 0

C19_WitnessMolecules ==
    /\ ClusterTrialAtZero /\ m_cur.kind = "ClusterMove"
    /\ Len(m_cur.cindex) = 2

\* With threshold 0 the cluster was the seed alone
C19_WitnessAlone ==
    /\ ClusterTrialAtZero
    /\ \/ m_cur.kind = "ClusterMove" /\ Len(m_cur.cindex) = 1
       \/ m_cur.kind = "TranslateRotateCluster" /\ m_cur.cindex = << >>

\* An Isochoric trial has proposed
IsochoricProposed == pc = "energy" /\ m_cur.kind = "Isochoric"

\* C20: an Isochoric trial has the protocol of an Isobaric trial: after
\* propose the change object has geometryChange = true, every atomic group
\* is registered with all its particle indices and every molecular group
\* with an empty list, the trial geometry holds the new side lengths, and
\* dV = 0.
C20_IsochoricRegisters ==
    IsochoricProposed =>
        /\ change.geometryChange
        /\ change.mvGroup = Isobaric_register(spc)
        /\ spc.geo_trial = m_cur.newlen
        /\ change.dV = 0

\* C20, what the code does: after an Isochoric propose the change object
\* is as clear() left it
C20_IsochoricLeavesChange ==
    IsochoricProposed => change = EmptyChange

\* An Isochoric trial scaled the trial coordinates to a new side length
C20_Witness ==
    /\ IsochoricProposed
    /\ m_cur.newlen # spc.geo
    /\ spc.trial # spc.p
    /\ ~change.geometryChange

\* The passes of the induction that found a dipole change within the
\* threshold
ConvergedPasses ==
    {k \in DOMAIN sub.errs : sub.errs[k] <= sub.threshold}

\* induceDipoles returned normally only after a pass within the threshold
\* at a count within max_iter
InduceReturnedRight ==
    sub.pc = "returned" =>
        /\ sub.cnt <= sub.max_iter
        /\ sub.cnt \in ConvergedPasses

\* induceDipoles threw in every other case: no pass at a count within
\* max_iter was within the threshold
InduceThrewRight ==
    sub.pc = "thrown" =>
        /\ sub.cnt = sub.max_iter + 1
        /\ \A k \in ConvergedPasses : k > sub.max_iter

\* C21: the induction of PolarizeMove terminates for every input; it
\* returns normally only when a pass whose largest dipole change is at most
\* the threshold occurred at a count not above max_iter, and fails with the
\* iteration-bound error in every other case.
C21_InductionTerminates ==
    /\ [](InduceReturnedRight /\ InduceThrewRight)
    /\ <>(sub.pc \in {"returned", "thrown"})

\* The induction returned at its last allowed pass, after passes that were
\* not within the threshold
C21_Witness ==
    /\ sub.pc = "returned" /\ sub.cnt = sub.max_iter /\ sub.cnt >= 2
    /\ ConvergedPasses = {sub.cnt}

\* The induction threw after max_iter + 1 passes
C21_WitnessThrown ==
    sub.pc = "thrown" /\ sub.max_iter >= 2 /\ sub.cnt = sub.max_iter + 1

\* Both replicas have ended an exchange with each other
TemperDone ==
    /\ twin.rep["A"].pc = "done" /\ twin.rep["B"].pc = "done"
    /\ goodPartner(twin.rep["A"].m) /\ goodPartner(twin.rep["B"].m)

\* Replica k holds the configuration and the volume replica q started with
Holds(k, q) ==
    /\ twin.rep[k].S.p = twin.rep[q].p0
    /\ twin.rep[k].S.geo = twin.rep[q].geo0

\* Both replicas found the same combined energy, decided alike, and either
\* both adopted the other's configuration and volume or both kept their own
Lockstep ==
    /\ twin.rep["A"].du = twin.rep["B"].du
    /\ twin.rep["A"].du = twin.rep["A"].duSelf + twin.rep["B"].duSelf
    /\ twin.rep["A"].acc = twin.rep["B"].acc
    /\ IF twin.rep["A"].acc THEN Holds("A", "B") /\ Holds("B", "A")
       ELSE Holds("A", "A") /\ Holds("B", "B")

\* C22: in a tempering exchange the two partners compute the same combined
\* energy and reach the same decision, so either both adopt the other's
\* configuration and volume or both keep their own.
C22_Lockstep == TemperDone => Lockstep

\* C22 (amended): the same, provided the global generators of the two
\* replicas were in the same state at the Metropolis test; the combined
\* energy is the same in any case.
C22_LockstepInSync ==
    TemperDone =>
        /\ twin.rep["A"].du = twin.rep["B"].du
        /\ twin.rep["A"].gm = twin.rep["B"].gm => Lockstep

\* Two replicas in step exchanged different configurations on a combined
\* energy that some variates accept and others reject
C22_Witness ==
    /\ TemperDone
    /\ twin.rep["A"].gm = twin.rep["B"].gm
    /\ twin.rep["A"].du > 0 /\ twin.rep["A"].du < Infty
    /\ twin.rep["A"].acc /\ twin.rep["B"].acc
    /\ twin.rep["A"].p0 # twin.rep["B"].p0
    /\ Holds("A", "B") /\ Holds("B", "A")

\* Two replicas out of step: one adopted the other's configuration, the
\* other kept its own
C22_WitnessSplit ==
    /\ TemperDone
    /\ twin.rep["A"].acc /\ ~twin.rep["B"].acc
    /\ twin.rep["A"].S.p = twin.rep["B"].S.p
    /\ twin.rep["A"].p0 # twin.rep["B"].p0

\* The keys of the moves section that construct a move on a molecule list
MoveKeysOf(section) ==
    DOMAIN section \cap {"atomtranslate", "moltransrotcluster"}

\* C23: constructing a move whose per-molecule configuration names a
\* molecule that the molecule list does not define fails at construction;
\* it never yields a move that silently lacks that molecule.
C23_UnknownMoleculeFails ==
    (sub.pc = "done") =>
        \A k \in MoveKeysOf(sub.section) : sub.section[k].names \subseteq MolIds

\* C23, what the code does: the moves constructed act on the molecules of
\* their configuration that are defined, and on no other
C23_UnknownMoleculeDropped ==
    (sub.pc = "done") =>
        \A i \in DOMAIN sub.mPtr :
            sub.mPtr[i].kind = "SwapMove" \/
            \E k \in MoveKeysOf(sub.section) :
                DOMAIN sub.mPtr[i].mollist = sub.section[k].names \cap MolIds

\* A Propagator was constructed with a move that lacks the undefined
\* molecule of its configuration
C23_Witness ==
    /\ sub.pc = "done" /\ Len(sub.mPtr) = 1
    /\ "atomtranslate" \in DOMAIN sub.section
    /\ sub.section["atomtranslate"].names = {"salt", "ghost"}
    /\ DOMAIN sub.mPtr[1].mollist = {"salt"}

\* The moves section holds a "random" object
HasRandomObject(section) ==
    "random" \in DOMAIN section /\ section["random"].object

\* C24: after the construction of a Propagator the generator of the moves
\* holds a copy of the state of the global generator, unless the moves
\* section holds a "random" object, in which case it holds the state that
\* object configures, whatever the other keys and their order.
C24_SeededAsConfigured ==
    (sub.pc = "done") =>
        sub.mslump = IF HasRandomObject(sub.section)
                     THEN sub.section["random"].state
                     ELSE sub.slump

\* C24, what the code does: the configured state stays only when "random"
\* is the last key of the iteration
C24_SeededByLastKey ==
    (sub.pc = "done") =>
        sub.mslump = IF HasRandomObject(sub.section) /\ sub.lastKey = "random"
                     THEN sub.section["random"].state
                     ELSE sub.slump

\* A Propagator was constructed on a section with a "random" object and a
\* "titrate" move, and the generator of the moves holds the state of the
\* global generator
C24_Witness ==
    /\ sub.pc = "done"
    /\ HasRandomObject(sub.section)
    /\ DOMAIN sub.section = {"random", "titrate"}
    /\ sub.section["random"].state # sub.slump
    /\ sub.mslump = sub.slump

\* A Propagator was constructed on a section with a "random" object and the
\* generator of the moves holds the configured state
C24_WitnessConfigured ==
    /\ sub.pc = "done"
    /\ HasRandomObject(sub.section)
    /\ sub.section["random"].state # sub.slump
    /\ sub.mslump = sub.section["random"].state

\* The grand-canonical moves of the model
GrandCanonicalKinds == {"GrandCanonicalSalt", "GrandCanonicalTitration"}

\* C25: no grand-canonical move raises an error on insufficient inventory:
\* a trial that must delete a particle of a type with no particle present
\* ends as a trial that is not applied and leaves the particle vectors,
\* the groups and the trackers unchanged.
C25_InventoryNeverRaises ==
    m_cur.kind \in GrandCanonicalKinds =>
        /\ pc # "threw"
        /\ (pc = "ret" /\ hist.du >= Infty) =>
              /\ spc.p = hist.p0 /\ spc.trial = spc.p
              /\ CommittedCm(spc) = hist.cm0

\* C25, what the code does for the salt move: a deletion without inventory
\* ends as a trial that is not applied
C25_SaltNeverRaises ==
    m_cur.kind = "GrandCanonicalSalt" =>
        /\ pc # "threw"
        /\ (pc = "ret" /\ hist.du >= Infty) =>
              /\ spc.p = hist.p0 /\ spc.trial = spc.p
              /\ CommittedCm(spc) = hist.cm0

\* A titration trial had to delete a counter-ion of a type with no particle
\* present: "id not found" was thrown, with the site swapped in trial
C25_Witness ==
    /\ pc = "threw" /\ m_cur.kind = "GrandCanonicalTitration"
    /\ spc.atomTrack[m_cur.pid] = << >>
    /\ spc.trial # spc.p

\* A TranslateRotateCluster trial has proposed
ClusterIonsProposed == pc = "energy" /\ m_cur.kind = "TranslateRotateCluster"

\* The mobile particles that were not put in the cluster
OutOfCluster == GroupIdx(spc.groups[m_cur.gmobile]) \ Range(m_cur.cindex)

\* Particle l is in reach of the seed group in the vector vec
InReach(vec, l) ==
    ClusterProbability(m_cur.threshold, spc, m_cur.igroup, vec, l) = 100

\* The bias of the current trial is 0: a mobile particle out of the cluster
\* is in reach of the seed in trial (it was not in p, or it would be in the
\* cluster); else every factor (1 - P_new) / (1 - P_old) is 1
BiasIsZero == \E l \in OutOfCluster : InReach(spc.trial, l)

\* A particle moved by the current trial is outside the container
MovedCollides ==
    \E i \in Range(m_cur.cindex) \cup GroupIdx(spc.groups[m_cur.igroup]) :
        collision(spc.trial[i], spc.geo)

\* C26: in TranslateRotateCluster the bias is the product over the mobile
\* particles l not put in the cluster of (1 - P_new(l)) / (1 - P_old(l));
\* below 1e-7 the trial is rejected without an energy evaluation (infinite
\* energy), otherwise the Metropolis energy is the energy change minus
\* ln(bias), which is the energy change when every factor is 1.
C26_BiasedEnergy ==
    ClusterIonsProposed =>
        /\ \A l \in OutOfCluster : ~InReach(spc.p, l)
        /\ \A e \in energyChange(m_cur, spc, change) :
              IF BiasIsZero THEN e.du = Infty
              ELSE IF MovedCollides THEN e.du = Infty
              ELSE e.du = systemEnergy(spc.trial) - systemEnergy(spc.p)

\* A mobile ion out of the cluster is in reach of the translated molecule:
\* the bias is 0 and the energy infinite, though nothing collides
C26_Witness ==
    /\ ClusterIonsProposed
    /\ BiasIsZero /\ ~MovedCollides
    /\ \A e \in energyChange(m_cur, spc, change) : e.du = Infty

\* A trial with bias 1 and an energy change that is not zero
C26_WitnessUnbiased ==
    /\ ClusterIonsProposed
    /\ ~BiasIsZero /\ ~MovedCollides
    /\ m_cur.cindex # << >>
    /\ \E e \in energyChange(m_cur, spc, change) : e.du # 0 /\ e.du < Infty

\* A ClusterMove trial has proposed
ClusterProposed == pc = "energy" /\ m_cur.kind = "ClusterMove"

\* A particle of the group l is in reach of the cluster group k in vec
GroupInReach(vec, k, l) ==
    \E t \in GroupIdx(spc.groups[l]) :
        ClusterProbability(ClusterMove_threshold(m_cur, spc.groups[k].molId),
                           spc, k, vec, t) = 100

\* The type of the group l is in the static list of the group k
StaticFor(k, l) ==
    spc.groups[l].molId \in
        (IF spc.groups[k].molId \in DOMAIN m_cur.mollist
         THEN m_cur.staticmol ELSE {})

\* The pairs (k, l) of a cluster member and a group outside the cluster of
\* a type that is not static for k, with l in reach of k in exactly one of
\* the old and the new configuration: a factor 0 or 1/0 of the bias
BrokenPairs ==
    {h \in Range(m_cur.cindex) \X (DOMAIN spc.groups \ Range(m_cur.cindex)) :
        /\ ~StaticFor(h[1], h[2])
        /\ GroupInReach(spc.trial, h[1], h[2]) # GroupInReach(spc.p, h[1], h[2])}

\* C27: in the bias calculation of ClusterMove no pair of a cluster member
\* k and a group l outside the cluster (of a type not static for k) is
\* skipped, wherever the cluster members are in the group list: a pair that
\* links in only one of the old and new configurations forces rejection.
C27_NoPairSkipped ==
    ClusterProposed /\ BrokenPairs # {} =>
        \A e \in energyChange(m_cur, spc, change) : e.du = Infty

\* The pairs whose outside group comes before every cluster member in the
\* group list are examined
C27_PairsBeforeCluster ==
    ClusterProposed
    /\ (\E h \in BrokenPairs : \A c \in Range(m_cur.cindex) : h[2] < c) =>
        \A e \in energyChange(m_cur, spc, change) : e.du = Infty

\* A group before the cluster in the group list forces the rejection
C27_Witness ==
    /\ ClusterProposed
    /\ \E h \in BrokenPairs : \A c \in Range(m_cur.cindex) : h[2] < c
    /\ \A e \in energyChange(m_cur, spc, change) : e.du = Infty

\* The types a cluster around the group g may not take: the static list
StaticTypes(g) ==
    IF spc.groups[g].molId \in DOMAIN m_cur.mollist
    THEN m_cur.staticmol ELSE {}

\* The groups that link to the group g in p and are not static for it
Linked(g) ==
    {l \in DOMAIN spc.groups \ {g} :
        /\ spc.groups[l].molId \notin StaticTypes(g)
        /\ GroupInReach(spc.p, g, l)}

\* A ClusterMove trial has grown its cluster and moved nothing yet but the
\* trial copy
ClusterGrown == ClusterProposed /\ m_cur.cindex # << >>

\* C28: a group of a type that is not static for a cluster member and that
\* satisfies the link criterion with it is added to the cluster.
C28_LinkedRecruited ==
    ClusterGrown =>
        \A g \in Range(m_cur.cindex) : Linked(g) \subseteq Range(m_cur.cindex)

\* C28, first part: a group of a type that is static for every cluster
\* member with which it links is not in the cluster (the seed apart)
C28_StaticNeverAdded ==
    ClusterGrown =>
        \A l \in Range(m_cur.cindex) \ {m_cur.igroup} :
            \E g \in Range(m_cur.cindex) \ {l} :
                spc.groups[l].molId \notin StaticTypes(g)

\* A cluster that took a group of a type that is not static
C28_Witness ==
    /\ ClusterGrown
    /\ m_cur.staticmol # {}
    /\ Len(m_cur.cindex) > 1

\* The sequence s holds no value twice
NoRepeat(s) == \A i, j \in DOMAIN s : s[i] = s[j] => i = j

\* moved and remaining share the groups of S between them, each group once
SharedOut(S, moved, remaining) ==
    /\ moved # << >>
    /\ NoRepeat(moved) /\ NoRepeat(remaining)
    /\ Range(moved) \cap Range(remaining) = {}
    /\ Range(moved) \cup Range(remaining) = DOMAIN S.groups
    /\ Len(moved) <= Len(S.groups)

\* From the particles p0 the groups of moved went by one common
\* displacement, once, and the groups of remaining stayed
MovedOnce(S, p0, moved, remaining) ==
    \E d \in Disp : \A g \in DOMAIN S.groups :
      \A i \in GroupIdx(S.groups[g]) :
        /\ g \in Range(moved) =>
              /\ S.p[i].x = translate(p0[i].x, d, S.geo)
              /\ S.trial[i].x = translate(p0[i].x, d, S.geo)
        /\ g \in Range(remaining) =>
              S.p[i].x = p0[i].x /\ S.trial[i].x = p0[i].x

\* C29: the recruitment loop of ClusterTranslateNR ends after at most one
\* pass per group; then moved and remaining are disjoint and together hold
\* every group, moved is not empty and starts with the seed, every group of
\* moved was translated once by the same displacement and no group of
\* remaining was translated.
C29_RecruitmentLoop ==
    /\ (pc = "trial" /\ m_cur.kind = "ClusterTranslateNR") =>
          /\ \A b \in trialMove(m_cur, spc, change) :
                /\ SharedOut(b.S, b.m.moved, b.m.remaining)
                /\ MovedOnce(b.S, spc.p, b.m.moved, b.m.remaining)
          /\ \A f \in DOMAIN spc.groups, d \in Disp :
                \A o \in ClusterTranslateNR_grow(spc, <<f>>,
                            Keep(Iota(Len(spc.groups)),
                                 DOMAIN spc.groups \ {f}), 1, d) :
                    o.moved[1] = f
    /\ (pc = "energy" /\ m_cur.kind = "ClusterTranslateNR") =>
          /\ SharedOut(spc, m_cur.moved, m_cur.remaining)
          /\ MovedOnce(spc, hist.p0, m_cur.moved, m_cur.remaining)

\* A loop that ended with one group moved and the other left where it was
C29_Witness ==
    /\ pc = "energy" /\ m_cur.kind = "ClusterTranslateNR"
    /\ Len(m_cur.moved) = 1 /\ Len(m_cur.remaining) = 1
    /\ spc.p # hist.p0

\* A loop that recruited the second group and moved both
C29_WitnessRecruited ==
    /\ pc = "energy" /\ m_cur.kind = "ClusterTranslateNR"
    /\ Len(m_cur.moved) = 2 /\ m_cur.remaining = << >>
    /\ spc.p # hist.p0

\* C30: at every idle boundary the trial geometry equals the committed
\* geometry, after any sequence of accepted and rejected trials of the
\* moves that change the box (Isobaric, Isochoric, ParallelTempering).
C30_TrialGeometryInSync ==
    pc = "idle" => spc.geo_trial = spc.geo

\* With Isobaric as the only move that changes the box the two agree
C30_IsobaricInSync ==
    (pc = "idle" /\ \A i \in DOMAIN mv :
                        mv[i].kind \notin {"Isochoric", "ParallelTempering"}) =>
        spc.geo_trial = spc.geo

\* An accepted Isobaric trial: both geometries have the new length
C30_Witness ==
    /\ pc = "idle" /\ m_cur.kind = "Isobaric" /\ m_cur.cnt_accepted > 0
    /\ spc.geo # hist.geo0 /\ spc.geo_trial = spc.geo

\* An accepted Isochoric trial left the old length in the trial geometry
C30_WitnessIsochoric ==
    /\ pc = "idle" /\ m_cur.kind = "Isochoric" /\ m_cur.cnt_accepted > 0
    /\ spc.geo_trial # spc.geo

\* An accepted exchange left the own volume in the trial geometry
C30_WitnessTempering ==
    /\ pc = "idle" /\ m_cur.kind = "ParallelTempering"
    /\ spc.geo_trial # spc.geo

\* The current move is a PolarizeMove around a move with a move-list
PolarizedWithList == m_cur.polarize /\ DOMAIN m_cur.mollist # {}



\* C31: a move() of a PolarizeMove around a move with a move-list that runs
\* n >= 1 inner trials solves the induced dipoles once, in the last inner
\* trial; the earlier trials take the wrapped move's energy change and
\* accept/reject, the last takes the full-system energy difference and
\* synchronises the whole particle vector.
C31_SolveOnLastTrial ==
    [][PolarizedWithList =>
        /\ (pc = "trial" /\ pc' = "energy") =>
              /\ m_cur'.updateDip <=> n' = 0
              /\ m_cur'.Ntrials = hist'.trials
              /\ m_cur'.updateDip =>
                    spc'.trial = induceDipoles(spc'.trial)
              /\ ~m_cur'.updateDip =>
                    \E o \in Tmove_trialMove([m_cur EXCEPT !.cnt = @ + 1],
                                             spc, change) :
                        spc'.trial = o.S.trial
        /\ (pc = "energy" /\ pc' # "energy") =>
              IF m_cur.updateDip
              THEN /\ hist'.du = systemEnergyChange(spc)
                   /\ spc'.p = spc'.trial
                   /\ spc'.p = IF hist'.acc THEN spc.trial ELSE spc.p
              ELSE /\ \E e \in Tmove_energyChange(m_cur, spc, change) :
                          hist'.du = e.du
                   /\ spc' = (IF hist'.acc
                              THEN Tmove_acceptMove(m_cur, spc)
                              ELSE Tmove_rejectMove(m_cur, spc)).S
    ]_vars

\* The second and last inner trial has solved the dipoles, the first had
\* not: Ntrials is 2 and a dipole in the trial vector is new
C31_Witness ==
    /\ PolarizedWithList /\ pc = "energy"
    /\ hist.trials = 2 /\ n = 0 /\ m_cur.updateDip
    /\ \E i \in DOMAIN spc.p : spc.trial[i].mu # spc.p[i].mu

\* The first of two inner trials: no solve
C31_WitnessEarlier ==
    /\ PolarizedWithList /\ pc = "energy"
    /\ hist.trials = 1 /\ n = 1 /\ ~m_cur.updateDip
    /\ spc.trial # spc.p

\* The replicas of the tempering step that have selected their partner
Searched == {k \in DOMAIN sub.rep : sub.rep[k].pc # "trial"}

\* C32: the partner selection gives rank + 1 or rank - 1, never the own
\* rank, and with one random value for all replicas it is symmetric: when
\* r selects s and s is a rank, s selects r.
C32_PartnerSymmetric ==
    sub.pc = "step" =>
        /\ \A k \in Searched :
              /\ PartnerOf(k) \in {k + 1, k - 1}
              /\ PartnerOf(k) # k
              /\ PartnerOf(k) \in Searched => PartnerOf(PartnerOf(k)) = k
        /\ \A k \in DOMAIN sub.rep :
              LET s == findPartner(k, sub.coin)
              IN s \in DOMAIN sub.rep => findPartner(s, sub.coin) = k

\* Among three or more replicas two have selected each other and a third
\* has selected a rank that does not exist
C32_Witness ==
    /\ sub.pc = "step" /\ sub.nproc >= 3
    /\ Searched = DOMAIN sub.rep
    /\ \E k \in Searched : Paired(k)
    /\ \E k \in Searched : PartnerOf(k) \notin DOMAIN sub.rep

\* Every replica of the step has ended its trial
AllDone == sub.pc = "step" /\ \A k \in DOMAIN sub.rep : sub.rep[k].pc = "done"

\* The replica k has no valid partner: it posts nothing, and its trial
\* ends rejected with particles and volume as they were
Unpartnered(k) ==
    LET r == sub.rep[k]
    IN /\ ~r.sent /\ ~r.swapped
       /\ r.S.trial = r.p0
       /\ r.S.p = r.p0 /\ r.S.geo = r.geo0
       /\ r.pc = "done" => ~r.acc

\* What the replica k posted has a taker: its partner selected it, and a
\* replica that received took what its partner had posted for it
Matched(k) ==
    LET r == sub.rep[k]
        q == sub.rep[r.m.partner]
    IN /\ r.m.partner \in DOMAIN sub.rep
       /\ r.m.partner \in Searched => q.m.partner = k
       /\ r.pc \in {"energy", "swapf", "metropolis"} =>
             q.sent /\ r.S.trial = q.p0 /\ r.m.recvVolume = q.geo0
       /\ r.pc \in {"metropolis", "done"} => q.swapped
       /\ r.pc = "done" /\ q.pc = "done" =>
             r.sent /\ q.sent /\ r.swapped /\ q.swapped

C33_WitnessAlone ==
    /\ AllDone /\ sub.nproc = 1 /\ ~sub.rep[0].acc

\* A CrankShaft trial is about to propose on a chain of three or more
CrankProposes(kind) ==
    /\ pc = "trial" /\ m_cur.kind = kind
    /\ \A g \in findMolecules(spc, m_cur.currentMolId) :
          GroupSize(spc.groups[g]) >= 3

\* The smaller and the larger of two numbers
Lo(a, b) == IF a < b THEN a ELSE b
Hi(a, b) == IF a < b THEN b ELSE a

\* The outcome o of a trial from the Space S: end points i < j with a
\* number of particles between them within minlen and maxlen, the rotation
\* set exactly these particles and not empty, every other particle where
\* it was in trial
CrankOutcome(o, S) ==
    LET i == Lo(o.m.beg, o.m.end)
        j == Hi(o.m.beg, o.m.end)
    IN /\ {i, j} \subseteq GroupIdx(S.groups[o.m.gPtr]) /\ i < j
       /\ o.m.minlen <= j - i - 1 /\ j - i - 1 <= o.m.maxlen
       /\ o.m.index # << >>
       /\ Range(o.m.index) = (i + 1) .. (j - 1)
       /\ \A k \in DOMAIN S.trial \ Range(o.m.index) :
             o.S.trial[k] = S.trial[k]

\* C34: for a chain of at least 3 monomers CrankShaft::findParticles ends
\* and yields end points i < j with minlen <= j - i - 1 <= maxlen and a
\* rotation set that is not empty and is exactly the monomers strictly
\* between i and j; the end points and the particles outside the set keep
\* their trial positions.
C34_FindsBetween ==
    CrankProposes("CrankShaft") =>
        /\ trialMove(m_cur, spc, change) # {}
        /\ \A o \in trialMove(m_cur, spc, change) : CrankOutcome(o, spc)

\* The same for an input with 1 <= minlen <= maxlen and minlen at most the
\* chain length minus 2
C34_FindsBetweenInBounds ==
    (/\ CrankProposes("CrankShaft")
     /\ 1 <= m_cur.minlen /\ m_cur.minlen <= m_cur.maxlen
     /\ \A g \in findMolecules(spc, m_cur.currentMolId) :
           m_cur.minlen <= GroupSize(spc.groups[g]) - 2) =>
        /\ trialMove(m_cur, spc, change) # {}
        /\ \A o \in trialMove(m_cur, spc, change) : CrankOutcome(o, spc)

\* No pair of end points passes the test of the loop: minlen is 3 on a
\* chain of four
C34_WitnessNoPair ==
    /\ CrankProposes("CrankShaft")
    /\ m_cur.minlen = 3
    /\ trialMove(m_cur, spc, change) = {}

\* With minlen 0 a trial has proposed with neighbours as end points and
\* nothing to rotate
C34_WitnessEmpty ==
    /\ pc = "energy" /\ m_cur.kind = "CrankShaft"
    /\ AbsDiff(m_cur.beg, m_cur.end) = 1 /\ m_cur.index = << >>

\* A trial has turned the two monomers between the ends of the chain
C34_Witness ==
    /\ pc = "energy" /\ m_cur.kind = "CrankShaft"
    /\ Len(m_cur.index) = 2
    /\ \E k \in Range(m_cur.index) : spc.trial[k] # spc.p[k]
    /\ spc.trial[m_cur.beg] = spc.p[m_cur.beg]
    /\ spc.trial[m_cur.end] = spc.p[m_cur.end]

\* The monomers of the chain after j, or before i, for the end points of
\* the current Pivot trial
PivotSides ==
    LET i == Lo(m_cur.beg, m_cur.end)
        j == Hi(m_cur.beg, m_cur.end)
        g == spc.groups[m_cur.gPtr]
    IN {(j + 1) .. g.back, g.front .. (i - 1)}

\* C35: in a Pivot trial with axis monomers i < j the rotated monomers are
\* exactly all monomers of the chain after j or exactly all before i; the
\* axis monomers and the monomers between them are never rotated.
C35_PivotOutside ==
    (pc = "energy" /\ m_cur.kind = "Pivot") =>
        /\ Range(m_cur.index) \in PivotSides
        /\ Range(m_cur.index) \cap
              (Lo(m_cur.beg, m_cur.end) .. Hi(m_cur.beg, m_cur.end)) = {}

\* The rotated monomers are all those on one side of the second axis
\* monomer drawn
C35_PivotAboutEnd ==
    (pc = "energy" /\ m_cur.kind = "Pivot") =>
        LET g == spc.groups[m_cur.gPtr]
        IN /\ Range(m_cur.index) \in
                 {(m_cur.end + 1) .. g.back, g.front .. (m_cur.end - 1)}
           /\ m_cur.index # << >>
           /\ m_cur.minlen <= AbsDiff(m_cur.beg, m_cur.end)
           /\ AbsDiff(m_cur.beg, m_cur.end) <= m_cur.maxlen

\* A Pivot trial moved the first axis monomer drawn, or one between the
\* two
C35_Witness ==
    /\ pc = "energy" /\ m_cur.kind = "Pivot"
    /\ m_cur.beg # m_cur.end
    /\ \E k \in Range(m_cur.index) :
          /\ Lo(m_cur.beg, m_cur.end) <= k /\ k <= Hi(m_cur.beg, m_cur.end)
          /\ spc.trial[k] # spc.p[k]

\* C37: at every idle boundary the trial mass centre of every group equals
\* its committed mass centre, after any sequence of accepted and rejected
\* trials of any moves.
C37_MassCentresInSync ==
    pc = "idle" =>
        \A g \in DOMAIN spc.groups : spc.groups[g].cm_trial = spc.groups[g].cm

\* A move has returned with the committed mass centre of a group moved
\* from where it was when the last trial began, and the trial mass centre
\* moved with it
C37_Witness ==
    /\ pc = "idle" /\ hist.cm0 # << >>
    /\ \E g \in DOMAIN spc.groups :
          /\ g \in DOMAIN hist.cm0
          /\ spc.groups[g].cm # hist.cm0[g]
          /\ spc.groups[g].cm_trial = spc.groups[g].cm

\* The same after a CrankShaft or Pivot move
C37_WitnessChain ==
    /\ C37_Witness
    /\ \E k \in DOMAIN mv : mv[k].kind \in {"CrankShaft", "Pivot"}

\* The last trial took back the trial before it
Reversed ==
    /\ sub.pc = "gc"
    /\ {sub.op, sub.opprev} = {"insert", "delete"}

\* C38: the ideal-gas and chemical-potential term of a grand-canonical
\* deletion is the exact negative of the term of the insertion that
\* reverses it, for GrandCanonicalSalt and for GreenGC, also when the
\* combination holds several particles of one species.
C38_DeletionReversesInsertion ==
    Reversed => TermEq(sub.u, TermNeg(sub.uprev))

\* The same for GrandCanonicalSalt alone
C38_SaltReverses ==
    (Reversed /\ sub.kind = "GrandCanonicalSalt") =>
        TermEq(sub.u, TermNeg(sub.uprev))

\* The same for GreenGC with one particle of each species
C38_GreenSingleReverses ==
    (Reversed /\ sub.kind = "GreenGC" /\ sub.cnt = <<1, 1>>) =>
        TermEq(sub.u, TermNeg(sub.uprev))

\* GrandCanonicalSalt deleted the three ions, two of one species, it had
\* inserted
C38_WitnessSalt ==
    /\ Reversed /\ sub.kind = "GrandCanonicalSalt"
    /\ sub.cnt = <<1, 2>> /\ sub.op = "delete"
    /\ TermEq(sub.u, TermNeg(sub.uprev))

\* GreenGC deleted the two molecules of one species it had inserted, and
\* the terms do not cancel
C38_WitnessGreen ==
    /\ Reversed /\ sub.kind = "GreenGC"
    /\ sub.cnt[1] = 2 /\ sub.op = "delete"
    /\ ~TermEq(sub.u, TermNeg(sub.uprev))

\* A call of SwapMove::move is about to return
SwapMoveReturns == pc = "swapret" /\ m_cur.kind = "SwapMove"

\* C36: SwapMove::move applies the run-fraction test once in a call; when
\* the test passes it makes one titration trial for each titratable site
\* found in the committed vector, when it fails it makes none.
C36_OneTrialPerSite ==
    SwapMoveReturns =>
        /\ hist.swtests = 1
        /\ hist.swtrials = IF hist.swran THEN Len(m_cur.sites) ELSE 0

\* What a call does: the test is applied once on entry and once more in
\* every base::move() of the loop, and each site gets at most one trial
C36_TestPerSite ==
    SwapMoveReturns =>
        IF hist.swran
        THEN /\ hist.swtests = 1 + Len(m_cur.sites)
             /\ hist.swtrials <= Len(m_cur.sites)
        ELSE hist.swtests = 1 /\ hist.swtrials = 0

\* With a run fraction of 1 every site gets its trial
C36_FullRunOneTrialPerSite ==
    (SwapMoveReturns /\ m_cur.runfraction >= 100) =>
        hist.swran /\ hist.swtrials = Len(m_cur.sites)

\* A call passed the test on entry and returns with fewer trials than
\* sites: a base::move() of the loop failed the test
C36_WitnessSkipped ==
    /\ SwapMoveReturns /\ hist.swran
    /\ Len(m_cur.sites) >= 2
    /\ hist.swtrials < Len(m_cur.sites)

\* A call made a trial for each of its sites
C36_Witness ==
    /\ SwapMoveReturns /\ hist.swran
    /\ Len(m_cur.sites) >= 2
    /\ hist.swtrials = Len(m_cur.sites)

\* A ConformationSwap trial has proposed
ConformationProposed == pc = "energy" /\ m_cur.kind = "ConformationSwap"

\* C39: after the propose of ConformationSwap the Change registers the
\* group whose conformation was replaced, with an empty particle list, as
\* TranslateRotate does.
C39_GroupRegistered ==
    ConformationProposed => <<m_cur.igroup, << >> >> \in change.mvGroup

\* After the propose of ConformationSwap the Change is as clear() left it
C39_ChangeEmpty ==
    ConformationProposed => change = EmptyChange

\* After the propose of TranslateRotate the Change registers the group
\* with an empty particle list
C39_TranslateRotateRegisters ==
    (pc = "energy" /\ m_cur.kind = "TranslateRotate") =>
        <<m_cur.igroup, << >> >> \in change.mvGroup

\* A new conformation is in trial and the Change names no group
C39_Witness ==
    /\ ConformationProposed
    /\ \E i \in GroupIdx(spc.groups[m_cur.igroup]) : spc.trial[i] # spc.p[i]
    /\ change.mvGroup = {}

\* A TranslateRotate trial has proposed
C39_WitnessTranslateRotate ==
    /\ pc = "energy" /\ m_cur.kind = "TranslateRotate"
    /\ <<m_cur.igroup, << >> >> \in change.mvGroup

====
